---- MODULE Spec2Model ----
(***************************************************************************)
(* A model of the validation actions (checkpoint/actions.py), the batch   *)
(* sorters, the date-parseable column metric, the analytics events and the *)
(* Snowflake batch definition of great_expectations.                       *)
(*                                                                         *)
(* Spec is the actions, SpecSorter the sorters, SpecMetric the metric,     *)
(* SpecEvents the events, SpecSnowflake the batch definition, and          *)
(* SpecPagerduty a process running several PagerDuty actions in sequence.  *)
(*                                                                         *)
(* One behaviour is the life of one object: it is constructed (or its      *)
(* construction fails) and then one of its methods is called once.  The    *)
(* state records the object, the call's arguments, what the call returned  *)
(* or raised, and the outbound calls it made, in order.  logs holds the    *)
(* records EmailAction._send_email logged; other logging is not modelled.  *)
(* unclosed holds the SMTP connections and HTTP sessions the call opened   *)
(* and had not closed when it ended.                                       *)
(*                                                                         *)
(* Python values are written as strings: "None", "True", "False", "" and   *)
(* ordinary strings.  Truthy is Python's truth test on them.               *)
(***************************************************************************)
EXTENDS Integers, Sequences, FiniteSets, TLC

VARIABLES pc, self, call, ret, effects, identifier, logs, unclosed

vars == <<pc, self, call, ret, effects, identifier, logs, unclosed>>

\* ------------------------------------------------------------------ bounds
\* Longest text of a rendered Slack block.
MaxTextLen == 9
\* Most posts of one run that the transport fails.
MaxFailedPosts == 1
\* Longest column handed to the date-parseable metric.
MaxColumnLen == 3
\* Longest reference list of a CustomListSorter.
MaxListLen == 3

\* ---------------------------------------------------------- Python values
None == "None"

Truthy(v) == v \notin {"None", "False", ""}

Min(a, b) == IF a < b THEN a ELSE b

\* What a call did: it returned val (under key, when the result is a
\* one-entry dict; key = "" for a plain value) or raised val, after making
\* the outbound calls eff.  val is a string; a result that is not a string
\* (a number, a column) is named by val and carried in data.
ReturnData(key, val, data, eff) ==
    [kind |-> "return", key |-> key, val |-> val, data |-> data, effects |-> eff,
     logs |-> <<>>]

Return(key, val, eff) == ReturnData(key, val, <<>>, eff)

Raise(exc, eff) ==
    [kind |-> "raise", key |-> "", val |-> exc, data |-> <<>>, effects |-> eff, logs |-> <<>>]

\* The outcome out of a call that logged the records l on its way.
Logged(out, l) == [out EXCEPT !.logs = l]

NoCall == [op |-> "none"]

NoObject == [type |-> "none"]

Pending == [kind |-> "pending", key |-> "", val |-> None, data |-> <<>>]

NotifyOn == {"all", "failure", "success"}

\* success of a validation result (legacy _run) and of a checkpoint result
\* (v1_run, where it may be undetermined).
SuccessVals == {"True", "False"}

CheckpointSuccessVals == {"True", "False", None}

\* The result identifier handed to _run: one of the two recognized kinds
\* (a cloud identifier with or without an assigned id) or anything else.
Identifiers ==
    { [kind |-> "ValidationResultIdentifier", id |-> None],
      [kind |-> "GXCloudIdentifier", id |-> None],
      [kind |-> "GXCloudIdentifier", id |-> "id-1"],
      [kind |-> "str", id |-> None] }

Recognized(ident) == ident.kind \in {"ValidationResultIdentifier", "GXCloudIdentifier"}

\* validation_result_suite: absent, or a result with a success flag.
NoResult == [present |-> FALSE, success |-> None]

Results == {NoResult} \cup { [present |-> TRUE, success |-> s] : s \in SuccessVals }

\* ------------------------------------------------------- ValidationAction
IsEnabledPrecedence(notify_on, success) ==
    (notify_on = "all" \/ notify_on = "success")
        /\ (Truthy(success) \/ (notify_on = "failure" /\ ~Truthy(success)))

IsEnabled(notify_on, success) ==
    \/ notify_on = "all"
    \/ (notify_on = "success" /\ Truthy(success))
    \/ (notify_on = "failure" /\ ~Truthy(success))

BoolStr(b) == IF b THEN "True" ELSE "False"

\* ------------------------------------------------ SlackNotificationAction
SlackWebhooks == {None, "", "https://hooks.slack.com/services/T1"}

SlackTokens == {None, "", "xoxb-1"}

SlackChannels == {None, "", "#data-quality"}

\* The root validator: TRUE when the assertions pass.
SlackParamsValidWebhookOnly(slack_webhook, slack_token, slack_channel) ==
    IF Truthy(slack_webhook)
    THEN ~Truthy(slack_token) /\ ~Truthy(slack_channel)
    ELSE Truthy(slack_token) \/ Truthy(slack_channel)

SlackParamsValid(slack_webhook, slack_token, slack_channel) ==
    IF Truthy(slack_webhook)
    THEN ~Truthy(slack_token) /\ ~Truthy(slack_channel)
    ELSE Truthy(slack_token) /\ Truthy(slack_channel)

\* The payload of the actions that ran before this one: absent (the
\* default), or a dict that may hold the store action's entry (with or
\* without validation_result_url) and the docs action's entry.
Payloads ==
    { [isNone |-> TRUE,  store |-> FALSE, url |-> FALSE, docs |-> FALSE],
      [isNone |-> FALSE, store |-> FALSE, url |-> FALSE, docs |-> FALSE],
      [isNone |-> FALSE, store |-> TRUE,  url |-> FALSE, docs |-> FALSE],
      [isNone |-> FALSE, store |-> TRUE,  url |-> TRUE,  docs |-> FALSE],
      [isNone |-> FALSE, store |-> TRUE,  url |-> TRUE,  docs |-> TRUE] }

PayloadTruthy(payload) == ~payload.isNone /\ (payload.store \/ payload.docs)

StoreUrl == "https://app.greatexpectations.io/validation/1"

\* What _get_docs_sites_urls returns: site_url values, some of them empty.
DocsSiteUrls == { <<>>, <<"file:///site/validations/1.html", None>> }

RECURSIVE SelectTruthy(_)
SelectTruthy(urls) ==
    IF urls = <<>> THEN <<>>
    ELSE IF Truthy(Head(urls)) THEN <<Head(urls)>> \o SelectTruthy(Tail(urls))
         ELSE SelectTruthy(Tail(urls))

\* A text of n characters, each character standing for its own position.
Text(n) == [i \in 1..n |-> i]

\* What the renderer returns: the query's "blocks" (absent, an empty list,
\* or a list) and, for a list, whether the first block carries "text".
Rendered ==
    { [blocks |-> "absent", has_text |-> FALSE, text |-> <<>>],
      [blocks |-> "empty",  has_text |-> FALSE, text |-> <<>>],
      [blocks |-> "list",   has_text |-> FALSE, text |-> <<>>] }
    \cup { [blocks |-> "list", has_text |-> TRUE, text |-> Text(n)] : n \in 1..MaxTextLen }

\* How the transport answers one post: it raises, or it answers with a
\* status code and a body that says ok or not.
Transports ==
    { [raises |-> e, status |-> 0, ok |-> FALSE] : e \in {"ConnectionError", "Exception"} }
    \cup { [raises |-> "none", status |-> s, ok |-> b] : s \in {200, 500}, b \in BOOLEAN }

OkTransport == [raises |-> "none", status |-> 200, ok |-> TRUE]

FailedTransport == [raises |-> "ConnectionError", status |-> 0, ok |-> FALSE]

\* The answers to the n posts of one run: at most MaxFailedPosts fail.
TransportSeqs(n) ==
    { [i \in 1..n |-> IF i \in F THEN FailedTransport ELSE OkTransport] :
        F \in { S \in SUBSET (1..n) : Cardinality(S) <= MaxFailedPosts } }

SlackSucceeded == "Slack notification succeeded."

SlackPostChannelForWebhook(text, slack_webhook, slack_channel, slack_token, transport) ==
    [kind |-> "http_post",
     url |-> IF ~Truthy(slack_webhook) THEN "https://slack.com/api/chat.postMessage"
             ELSE slack_webhook,
     auth |-> IF ~Truthy(slack_webhook) THEN slack_token ELSE None,
     channel |-> IF Truthy(slack_channel) /\ Truthy(slack_webhook) THEN slack_channel ELSE None,
     text |-> text,
     transport |-> transport]

\* _send_slack_notification: the post it makes and the value it returns.
SlackPost(text, slack_webhook, slack_channel, slack_token, transport) ==
    [kind |-> "http_post",
     url |-> IF ~Truthy(slack_webhook) THEN "https://slack.com/api/chat.postMessage"
             ELSE slack_webhook,
     auth |-> IF ~Truthy(slack_webhook) THEN slack_token ELSE None,
     channel |-> IF Truthy(slack_channel) THEN slack_channel ELSE None,
     text |-> text,
     transport |-> transport]

SendSlackNotificationIgnoresBody(transport) ==
    IF transport.raises = "ConnectionError" THEN None
    ELSE IF transport.raises # "none" THEN None
    ELSE IF transport.status # 200 THEN None
    ELSE SlackSucceeded

SendSlackNotification(transport) ==
    IF transport.raises = "ConnectionError" THEN None
    ELSE IF transport.raises # "none" THEN None
    ELSE IF transport.status # 200 \/ ~transport.ok THEN None
    ELSE SlackSucceeded

\* _send_notifications_in_batches: the chunks range(0, len, len // 4) cuts.
ChunkSize(text) == Len(text) \div 4

NumChunks(text) ==
    LET cs == ChunkSize(text) IN (Len(text) + cs - 1) \div cs

Chunk(text, i) ==
    LET cs == ChunkSize(text)
    IN SubSeq(text, (i - 1) * cs + 1, Min(i * cs, Len(text)))

\* The posts a rendered message needs when it is sent.
PostsNeeded(rendered) ==
    IF rendered.blocks # "list" THEN 0
    ELSE IF ~rendered.has_text THEN 1
    ELSE IF ChunkSize(rendered.text) = 0 THEN 0
    ELSE NumChunks(rendered.text)

SlackResult(val, eff) == Return("slack_notification_result", val, eff)

SendNotificationsInBatchesAllDelivered(obj, text, tr) ==
    IF ChunkSize(text) = 0
    THEN Raise("ValueError", <<>>)
    ELSE LET n == NumChunks(text)
         IN SlackResult(IF \A i \in 1..n : SendSlackNotification(tr[i]) = SlackSucceeded
                        THEN SlackSucceeded ELSE None,
                [i \in 1..n |-> SlackPost(Chunk(text, i), obj.slack_webhook,
                                          obj.slack_channel, obj.slack_token, tr[i])])

SendNotificationsInBatches(obj, text, tr) ==
    IF ChunkSize(text) = 0
    THEN Raise("ValueError", <<>>)
    ELSE LET n == NumChunks(text)
         IN SlackResult(SendSlackNotification(tr[n]),
                [i \in 1..n |-> SlackPost(Chunk(text, i), obj.slack_webhook,
                                          obj.slack_channel, obj.slack_token, tr[i])])

ValidationResultUrls(ident, payload, docs_urls) ==
    SelectTruthy(docs_urls)
        \o (IF ident.kind = "GXCloudIdentifier" /\ Truthy(ident.id)
               /\ payload.store /\ payload.url
            THEN <<StoreUrl>> ELSE <<>>)

SlackRun(obj, result, ident, payload, docs_urls, rendered, tr) ==
    IF ~result.present THEN Return("", None, <<>>)
    ELSE IF ~Recognized(ident) THEN Raise("TypeError", <<>>)
    ELSE IF ident.kind = "GXCloudIdentifier" /\ Truthy(ident.id) /\ payload.isNone
    THEN Raise("TypeError", <<>>)
    ELSE IF ~IsEnabled(obj.notify_on, result.success)
    THEN SlackResult("none required", <<>>)
    ELSE IF rendered.blocks # "list" THEN SlackResult("none required", <<>>)
    ELSE IF rendered.has_text THEN SendNotificationsInBatches(obj, rendered.text, tr)
    ELSE SlackResult(SendSlackNotification(tr[1]),
            << SlackPost(<<>>, obj.slack_webhook, obj.slack_channel, obj.slack_token, tr[1]) >>)

\* --------------------------------------------------- checkpoint results
\* Most run results of one checkpoint result.
MaxRuns == 2

\* The i-th run of a checkpoint result: its identifier carries the batch
\* identifier, the run carries its suite name and its results.
RunResult(i) ==
    [run_id |-> i, batch_identifier |-> <<"batch", i>>,
     suite_name |-> <<"suite", i>>, results |-> <<"results", i>>]

CheckpointName == "my_checkpoint"

CheckpointResults ==
    { [success |-> s, name |-> CheckpointName, run_results |-> [i \in 1..n |-> RunResult(i)]] :
        s \in CheckpointSuccessVals, n \in 0..MaxRuns }

OrTrue(success) == IF Truthy(success) THEN success ELSE "True"

\* success or False
OrFalse(success) == IF Truthy(success) THEN success ELSE "False"

\* validation_result_suite.meta.get("expectation_suite_name", <placeholder>)
MetaSuiteNames == {None, "my_suite"}

SuiteNameOf(meta_suite) ==
    IF meta_suite = None THEN "__no_expectation_suite_name__" ELSE meta_suite

\* --------------------------------------------------- PagerdutyAlertAction
PdTransports == { [raises |-> e] : e \in {"none", "Exception"} }

RunPypdAlert(obj, dedup_key, message, success, transport) ==
    IF IsEnabled(obj.notify_on, success)
    THEN LET ev == [kind |-> "pd_event", api_key |-> obj.api_key,
                    routing_key |-> obj.routing_key, dedup_key |-> dedup_key,
                    summary |-> message, severity |-> obj.severity,
                    transport |-> transport]
         IN IF transport.raises # "none"
            THEN Raise(transport.raises, <<ev>>)
            ELSE Return("pagerduty_alert_result", "success", <<ev>>)
    ELSE Return("pagerduty_alert_result", "none sent", <<>>)

PagerdutyV1RunAlwaysFailed(obj, checkpoint_result, transport) ==
    LET success == OrFalse(checkpoint_result.success)
        summary == <<"Great Expectations Checkpoint", checkpoint_result.name, "has", "failed">>
    IN RunPypdAlert(obj, checkpoint_result.name, summary, success, transport)

PagerdutyV1Run(obj, checkpoint_result, transport) ==
    LET success == OrFalse(checkpoint_result.success)
        summary == <<"Great Expectations Checkpoint", checkpoint_result.name, "has",
                     IF Truthy(success) THEN "succeeded" ELSE "failed">>
    IN RunPypdAlert(obj, checkpoint_result.name, summary, success, transport)

PagerdutyRun(obj, result, ident, meta_suite, transport) ==
    IF ~result.present THEN Return("", None, <<>>)
    ELSE IF ~Recognized(ident) THEN Raise("TypeError", <<>>)
    ELSE RunPypdAlert(obj, SuiteNameOf(meta_suite),
            <<"Great Expectations suite check", SuiteNameOf(meta_suite), "has failed">>,
            result.success, transport)

\* --------------------------------------- MicrosoftTeamsNotificationAction
TeamsSucceeded == "Microsoft Teams notification succeeded."

TeamsPost(microsoft_teams_webhook, transport) ==
    [kind |-> "http_post", url |-> microsoft_teams_webhook, transport |-> transport]

SendMicrosoftTeamsNotifications(transport) ==
    IF transport.raises = "ConnectionError" THEN None
    ELSE IF transport.raises # "none" THEN None
    ELSE IF transport.status # 200 THEN None
    ELSE TeamsSucceeded

TeamsRun(obj, result, ident, transport) ==
    IF ~result.present THEN Return("", None, <<>>)
    ELSE IF ~Recognized(ident) THEN Raise("TypeError", <<>>)
    ELSE IF IsEnabled(obj.notify_on, result.success)
    THEN Return("microsoft_teams_notification_result",
                SendMicrosoftTeamsNotifications(transport),
                << TeamsPost(obj.teams_webhook, transport) >>)
    ELSE Return("microsoft_teams_notification_result", None, <<>>)

\* ---------------------------------------------------- OpsgenieAlertAction
OpsgenieRegions == {None, "EU", "US"}

OpsgenieUrlEuOnly(region) ==
    IF region = "EU" THEN <<"https://api.", region, ".opsgenie.com/v2/alerts">>
    ELSE <<"https://api.opsgenie.com/v2/alerts">>

OpsgenieUrl(region) ==
    IF region # None THEN <<"https://api.", region, ".opsgenie.com/v2/alerts">>
    ELSE <<"https://api.opsgenie.com/v2/alerts">>

\* _send_opsgenie_alert: the alert result, or the exception that escapes.
SendOpsgenieAlert(settings, message, transport) ==
    LET post == [kind |-> "http_post", url |-> OpsgenieUrl(settings.region),
                 auth |-> <<"GenieKey", settings.api_key>>, message |-> message,
                 transport |-> transport]
    IN IF transport.raises = "ConnectionError" THEN Return("", "False", <<post>>)
       ELSE IF transport.raises # "none" THEN Raise(transport.raises, <<post>>)
       ELSE IF transport.status # 200 THEN Return("", "False", <<post>>)
       ELSE Return("", "True", <<post>>)

\* {"opsgenie_alert_result": alert_result}, unless the helper raised.
OpsgenieResult(sent) ==
    IF sent.kind = "raise" THEN sent
    ELSE Return("opsgenie_alert_result", sent.val, sent.effects)

OpsgenieSettings(obj) == [api_key |-> obj.api_key, region |-> obj.region]

OpsgenieV1Run(obj, checkpoint_result, transport) ==
    IF IsEnabled(obj.notify_on, OrFalse(checkpoint_result.success))
    THEN OpsgenieResult(SendOpsgenieAlert(OpsgenieSettings(obj),
            <<"Great Expectations Checkpoint", checkpoint_result.name,
              IF Truthy(checkpoint_result.success) THEN "succeeded!" ELSE "failed!">>,
            transport))
    ELSE Return("opsgenie_alert_result", "No alert sent", <<>>)

OpsgenieRun(obj, result, ident, meta_suite, transport) ==
    IF ~result.present THEN Return("", None, <<>>)
    ELSE IF ~Recognized(ident) THEN Raise("TypeError", <<>>)
    ELSE IF IsEnabled(obj.notify_on, result.success)
    THEN OpsgenieResult(SendOpsgenieAlert(OpsgenieSettings(obj),
            <<"Great Expectations suite", SuiteNameOf(meta_suite), "failed">>, transport))
    ELSE Return("opsgenie_alert_result", "", <<>>)

\* ------------------------------------------------------------ EmailAction
Flags == {None, "True", "False"}

Credentials == {None, "secret"}

\* The SMTP step that fails, with the exception it raises; a step the call
\* never reaches cannot fail.
SmtpFailures ==
    { [at |-> "none", exc |-> "none"],
      [at |-> "connect", exc |-> "SMTPConnectError"],
      [at |-> "starttls", exc |-> "Exception"],
      [at |-> "login", exc |-> "SMTPAuthenticationError"],
      [at |-> "sendmail", exc |-> "Exception"],
      [at |-> "quit", exc |-> "Exception"] }

SmtpStepsTlsWins(sender_login, sender_password, use_tls, use_ssl) ==
    (IF Truthy(use_tls)
     THEN << [op |-> "SMTP", step |-> "connect"], [op |-> "starttls", step |-> "starttls"] >>
     ELSE IF Truthy(use_ssl) THEN << [op |-> "SMTP_SSL", step |-> "connect"] >>
          ELSE << [op |-> "SMTP", step |-> "connect"] >>)
    \o (IF sender_login # None /\ sender_password # None
        THEN << [op |-> "login", step |-> "login"] >> ELSE <<>>)
    \o << [op |-> "sendmail", step |-> "sendmail"], [op |-> "quit", step |-> "quit"] >>

\* The SMTP steps _send_email takes when nothing fails.
SmtpSteps(sender_login, sender_password, use_tls, use_ssl) ==
    (IF Truthy(use_ssl) THEN << [op |-> "SMTP_SSL", step |-> "connect"] >>
     ELSE IF Truthy(use_tls)
          THEN << [op |-> "SMTP", step |-> "connect"], [op |-> "starttls", step |-> "starttls"] >>
          ELSE << [op |-> "SMTP", step |-> "connect"] >>)
    \o (IF sender_login # None /\ sender_password # None
        THEN << [op |-> "login", step |-> "login"] >> ELSE <<>>)
    \o << [op |-> "sendmail", step |-> "sendmail"], [op |-> "quit", step |-> "quit"] >>

\* The position of the first step that fails, or 0.
RECURSIVE FirstFailing(_, _, _)
FirstFailing(steps, fail, i) ==
    IF i > Len(steps) THEN 0
    ELSE IF steps[i].step = fail.at THEN i
    ELSE FirstFailing(steps, fail, i + 1)

SmtpEffects(steps, fail) ==
    LET k == FirstFailing(steps, fail, 1)
        n == IF k = 0 THEN Len(steps) ELSE k
    IN [i \in 1..n |-> [kind |-> "smtp", op |-> steps[i].op,
                        transport |-> [raises |-> IF i = k THEN fail.exc ELSE "none"]]]

\* What _send_email logs: the warning about the flags, the error about a
\* lone credential once the connection stands, the error of the handler that
\* caught a failing step.
SmtpLogsCredentialSilent(sender_login, sender_password, use_tls, use_ssl, fail) ==
    LET steps == SmtpSteps(sender_login, sender_password, use_tls, use_ssl)
        k == FirstFailing(steps, fail, 1)
    IN (IF Truthy(use_ssl)
        THEN (IF Truthy(use_tls)
              THEN << [level |-> "warning", about |-> "choose between SSL or TLS"] >>
              ELSE <<>>)
        ELSE IF Truthy(use_tls) THEN <<>>
        ELSE << [level |-> "warning", about |-> "not secure"] >>)
       \o (IF k = 0 THEN <<>>
           ELSE << [level |-> "error", about |-> fail.exc] >>)

SmtpLogs(sender_login, sender_password, use_tls, use_ssl, fail) ==
    LET steps == SmtpSteps(sender_login, sender_password, use_tls, use_ssl)
        k == FirstFailing(steps, fail, 1)
    IN (IF Truthy(use_ssl)
        THEN (IF Truthy(use_tls)
              THEN << [level |-> "warning", about |-> "choose between SSL or TLS"] >>
              ELSE <<>>)
        ELSE IF Truthy(use_tls) THEN <<>>
        ELSE << [level |-> "warning", about |-> "not secure"] >>)
       \o (IF (k = 0 \/ steps[k].step \notin {"connect", "starttls"})
              /\ (sender_login = None) # (sender_password = None)
           THEN << [level |-> "error", about |-> "specify both credentials"] >> ELSE <<>>)
       \o (IF k = 0 THEN <<>>
           ELSE << [level |-> "error", about |-> fail.exc] >>)

\* _send_email: "success", or no value when a step raised.
SendEmail(steps, fail) ==
    IF FirstFailing(steps, fail, 1) = 0 THEN "success" ELSE None

EmailSteps(obj) == SmtpSteps(obj.sender_login, obj.sender_password, obj.use_tls, obj.use_ssl)

EmailLogs(obj, fail) ==
    SmtpLogs(obj.sender_login, obj.sender_password, obj.use_tls, obj.use_ssl, fail)

EmailRun(obj, result, ident, fail) ==
    IF ~result.present THEN Return("", None, <<>>)
    ELSE IF ~Recognized(ident) THEN Raise("TypeError", <<>>)
    ELSE IF IsEnabled(obj.notify_on, result.success)
    THEN Logged(Return("email_result", SendEmail(EmailSteps(obj), fail),
                       SmtpEffects(EmailSteps(obj), fail)),
                EmailLogs(obj, fail))
    ELSE Return("email_result", "", <<>>)

\* -------------------------------------------------- SNSNotificationAction
SnsSubjects == {None, "", "my subject"}

\* expectation_suite_identifier: absent, or an identifier with a name.
SuiteIdentifiers == {None, "my_suite"}

\* How the SNS client answers a publish.
SnsTransports ==
    { [raises |-> e] : e \in {"none", "InvalidParameterException", "Exception"} }

\* Only a ValidationResultIdentifier has a run_id.
HasRunId(ident) == ident.kind = "ValidationResultIdentifier"

\* The session and the client _send_sns_notification creates before it
\* publishes.
SnsSession ==
    << [kind |-> "boto3_session", transport |-> [raises |-> "none"]],
       [kind |-> "sns_client", transport |-> [raises |-> "none"]] >>

SendSnsNotificationUnguarded(sns_topic_arn, sns_subject, validation_results, boto3, transport) ==
    LET pub == [kind |-> "sns_publish", topic |-> sns_topic_arn,
                subject |-> sns_subject, message |-> validation_results,
                transport |-> transport]
    IN IF transport.raises = "InvalidParameterException"
       THEN Return("", "Received invalid for message", SnsSession \o <<pub>>)
       ELSE IF transport.raises # "none" THEN Raise(transport.raises, SnsSession \o <<pub>>)
       ELSE Return("", "Successfully posted results", SnsSession \o <<pub>>)

\* _send_sns_notification
SendSnsNotification(sns_topic_arn, sns_subject, validation_results, boto3, transport) ==
    IF ~boto3 THEN Return("", "boto3 is not installed", <<>>)
    ELSE LET pub == [kind |-> "sns_publish", topic |-> sns_topic_arn,
                     subject |-> sns_subject, message |-> validation_results,
                     transport |-> transport]
         IN IF transport.raises = "InvalidParameterException"
            THEN Return("", "Received invalid for message", SnsSession \o <<pub>>)
            ELSE IF transport.raises # "none" THEN Raise(transport.raises, SnsSession \o <<pub>>)
            ELSE Return("", "Successfully posted results", SnsSession \o <<pub>>)

SnsV1Run(obj, checkpoint_result, boto3, transport) ==
    SendSnsNotification(obj.sns_topic_arn,
        IF Truthy(obj.sns_message_subject) THEN obj.sns_message_subject
        ELSE checkpoint_result.name,
        checkpoint_result.run_results, boto3, transport)

SnsRunPrefersRunId(obj, result, ident, suite_ident, boto3, transport) ==
    IF obj.sns_message_subject = None /\ ~HasRunId(ident)
    THEN Raise("AttributeError", <<>>)
    ELSE SendSnsNotification(obj.sns_topic_arn,
            IF obj.sns_message_subject # None THEN obj.sns_message_subject ELSE "run_id",
            IF result.present THEN <<"result", result.success>> ELSE <<None>>,
            boto3, transport)

\* _run: the subject is looked up before the helper is called; an identifier
\* without a run_id fails the lookup.
SnsRun(obj, result, ident, suite_ident, boto3, transport) ==
    IF obj.sns_message_subject = None /\ suite_ident = None /\ ~HasRunId(ident)
    THEN Raise("AttributeError", <<>>)
    ELSE SendSnsNotification(obj.sns_topic_arn,
            IF obj.sns_message_subject # None THEN obj.sns_message_subject
            ELSE IF suite_ident = None THEN "run_id" ELSE suite_ident,
            IF result.present THEN <<"result", result.success>> ELSE <<None>>,
            boto3, transport)

\* -------------------------------------------------- APINotificationAction
ApiUrl == "https://example.com/results"

CreatePayload(data_asset_name, suite_name, validation_results_serializable) ==
    [test_suite_name |-> suite_name, data_asset_name |-> data_asset_name,
     validation_results |-> validation_results_serializable]

SendResultsSwallows(obj, payload, transport) ==
    ReturnData("", "Response", <<transport.status>>,
           << [kind |-> "http_post", url |-> obj.url, data |-> payload,
               transport |-> transport] >>)

\* send_results: the response's status code, or the exception re-raised.
SendResults(obj, payload, transport) ==
    LET post == [kind |-> "http_post", url |-> obj.url, data |-> payload,
                 transport |-> transport]
    IN IF transport.raises # "none" THEN Raise(transport.raises, <<post>>)
       ELSE ReturnData("", "Response", <<transport.status>>, <<post>>)

\* The confirmation string: the prefix in val, the status code it embeds in
\* data.
ApiConfirmation(prefix, sent) ==
    IF sent.kind = "raise" THEN sent
    ELSE ReturnData("", prefix, sent.data, sent.effects)

\* convert_to_json_serializable: the JSON-serializable form of a value.
ConvertToJsonSerializable(v) == <<"json">> \o v

ApiV1RunNewestFirst(obj, checkpoint_result, transport) ==
    LET runs == checkpoint_result.run_results
        aggregate_payload ==
            [i \in 1..Len(runs) |->
                CreatePayload(runs[Len(runs) + 1 - i].batch_identifier,
                              runs[Len(runs) + 1 - i].suite_name,
                              ConvertToJsonSerializable(runs[Len(runs) + 1 - i].results))]
    IN ApiConfirmation("Posted results to API, status code - ",
                       SendResults(obj, aggregate_payload, transport))

ApiV1Run(obj, checkpoint_result, transport) ==
    LET runs == checkpoint_result.run_results
        aggregate_payload ==
            [i \in 1..Len(runs) |->
                CreatePayload(runs[i].batch_identifier, runs[i].suite_name,
                              ConvertToJsonSerializable(runs[i].results))]
    IN ApiConfirmation("Posted results to API, status code - ",
                       SendResults(obj, aggregate_payload, transport))

ApiRun(obj, result, ident, transport) ==
    IF ~result.present THEN Raise("AttributeError", <<>>)
    ELSE ApiConfirmation("Successfully Posted results to API, status code - ",
            SendResults(obj, <<CreatePayload("my_asset", "my_suite",
                                            ConvertToJsonSerializable(<<"results">>))>>,
                        transport))

\* -------------------------------------------- StoreValidationResultAction
\* The stores of the data context by name: the validations store (also the
\* default), a store of another kind, and a name the context does not have.
TargetStoreNames == {None, "validations_store", "metrics_store", "no_such_store"}

\* __init__: the exception it raises, or "none".
StoreInitRaises(target_store_name) ==
    IF target_store_name = "no_such_store" THEN "KeyError"
    ELSE IF target_store_name = "metrics_store" THEN "ValueError"
    ELSE "none"

\* What store_validation_results answers: a cloud resource reference with
\* the id the backend assigned, another value, or an exception.
StoreOutputs ==
    { [kind |-> "GXCloudResourceRef", id |-> "ref-7", raises |-> "none"],
      [kind |-> "bool", id |-> None, raises |-> "none"],
      [kind |-> "none", id |-> None, raises |-> "StoreBackendError"] }

\* _using_cloud_context, read from the project manager at each use.
CloudContexts == BOOLEAN

StoreIdentifierAfterAlways(ident, output) ==
    IF output.raises = "none" /\ output.kind = "GXCloudResourceRef"
    THEN [ident EXCEPT !.id = output.id]
    ELSE ident

\* The identifier after _run: a cloud identifier takes the id of a cloud
\* resource reference.
StoreIdentifierAfter(ident, output) ==
    IF output.raises = "none" /\ output.kind = "GXCloudResourceRef"
       /\ ident.kind = "GXCloudIdentifier"
    THEN [ident EXCEPT !.id = output.id]
    ELSE ident

StoreRun(obj, result, ident, cloud, output) ==
    LET eff == << [kind |-> "store_validation_results", result |-> result, ident |-> ident,
                   transport |-> [raises |-> output.raises]] >>
    IN IF output.raises # "none" THEN Raise(output.raises, eff)
       ELSE IF cloud /\ output.kind = "GXCloudResourceRef"
       THEN ReturnData("", "GXCloudResourceRef", <<output.id>>, eff)
       ELSE Return("", None, eff)

\* --------------------------------------------------- UpdateDataDocsAction
SiteNames == { <<>>, <<"local_site">> }

\* What get_docs_sites_urls answers: one entry per site, in order; a site may
\* have no URL, and two entries may carry the same name.
DocsSites ==
    { <<>>,
      << [site_name |-> "local_site", site_url |-> "file:///site/validations/1.html"] >>,
      << [site_name |-> "local_site", site_url |-> "file:///site/validations/1.html"],
         [site_name |-> "s3_site", site_url |-> None] >>,
      << [site_name |-> "local_site", site_url |-> "file:///site/validations/1.html"],
         [site_name |-> "local_site", site_url |-> "file:///mirror/validations/1.html"] >> }

\* How build_data_docs ends.
BuildOutcomes == {"none", "DataContextError"}

\* expectation_suite_identifier of _run: absent, or an identifier.
DocsSuiteIdentifiers ==
    { [kind |-> "none", name |-> <<>>],
      [kind |-> "ExpectationSuiteIdentifier", name |-> <<"suite", 0>>] }

\* d[k] = v on a dict kept as its items in insertion order.
RECURSIVE DictSet(_, _, _)
DictSet(d, k, v) ==
    IF d = <<>> THEN << [key |-> k, value |-> v] >>
    ELSE IF Head(d).key = k THEN << [key |-> k, value |-> v] >> \o Tail(d)
    ELSE << Head(d) >> \o DictSet(Tail(d), k, v)

\* The loop over docs_site_urls_list, from the first i entries.
RECURSIVE SiteUrlDict(_, _)
SiteUrlDict(sites, i) ==
    IF i = 0 THEN <<>>
    ELSE DictSet(SiteUrlDict(sites, i - 1), sites[i].site_name, sites[i].site_url)

UpdateDataDocsRunResolvesInCloud(obj, result, ident, suite_ident, cloud, sites, build) ==
    LET built == [kind |-> "build_data_docs", site_names |-> obj.site_names,
                  resource_identifiers |-> <<ident, suite_ident>>,
                  transport |-> [raises |-> build]]
        resolved == [kind |-> "get_docs_sites_urls", site_names |-> obj.site_names,
                     resource_identifiers |-> <<ident>>,
                     transport |-> [raises |-> "none"]]
    IN IF ~result.present THEN Return("", None, <<>>)
       ELSE IF ~Recognized(ident) THEN Raise("TypeError", <<>>)
       ELSE IF build # "none" THEN Raise(build, <<built>>)
       ELSE ReturnData("", "dict", IF cloud THEN <<>> ELSE SiteUrlDict(sites, Len(sites)),
                       <<built, resolved>>)

UpdateDataDocsRun(obj, result, ident, suite_ident, cloud, sites, build) ==
    LET built == [kind |-> "build_data_docs", site_names |-> obj.site_names,
                  resource_identifiers |-> <<ident, suite_ident>>,
                  transport |-> [raises |-> build]]
        resolved == [kind |-> "get_docs_sites_urls", site_names |-> obj.site_names,
                     resource_identifiers |-> <<ident>>,
                     transport |-> [raises |-> "none"]]
    IN IF ~result.present THEN Return("", None, <<>>)
       ELSE IF ~Recognized(ident) THEN Raise("TypeError", <<>>)
       ELSE IF build # "none" THEN Raise(build, <<built>>)
       ELSE IF cloud THEN ReturnData("", "dict", <<>>, <<built>>)
       ELSE ReturnData("", "dict", SiteUrlDict(sites, Len(sites)), <<built, resolved>>)

\* The key of a run in run_results: a ValidationResultIdentifier.
RunIdentifier(run) ==
    [kind |-> "ValidationResultIdentifier", id |-> None, run_id |-> run.run_id]

\* The suite identifier v1_run builds for a run.
RunSuiteIdentifier(run, cloud) ==
    [kind |-> IF cloud THEN "GXCloudIdentifier" ELSE "ExpectationSuiteIdentifier",
     name |-> run.suite_name]

RECURSIVE Concat(_, _)
Concat(seqs, n) == IF n = 0 THEN <<>> ELSE Concat(seqs, n - 1) \o seqs[n]

\* v1_run: _run for each run in order; build_data_docs fails at run fail_at
\* (0: never), and the exception ends the loop.  The returned dict is kept as
\* its items (result_identifier, action_result) in insertion order.
UpdateDataDocsV1RunKeyedBySuite(obj, checkpoint_result, cloud, sites, fail_at) ==
    LET runs == checkpoint_result.run_results
        n == Len(runs)
        out == [i \in 1..n |->
                  UpdateDataDocsRun(obj, [present |-> TRUE, success |-> "True"],
                      RunIdentifier(runs[i]), RunSuiteIdentifier(runs[i], cloud), cloud, sites,
                      IF i = fail_at THEN "DataContextError" ELSE "none")]
        eff == [i \in 1..n |-> out[i].effects]
    IN IF fail_at \in 1..n THEN Raise(out[fail_at].val, Concat(eff, fail_at))
       ELSE ReturnData("", "dict",
                [i \in 1..n |-> [result_identifier |-> RunSuiteIdentifier(runs[i], cloud),
                                 action_result |-> out[i].data]],
                Concat(eff, n))

UpdateDataDocsV1Run(obj, checkpoint_result, cloud, sites, fail_at) ==
    LET runs == checkpoint_result.run_results
        n == Len(runs)
        out == [i \in 1..n |->
                  UpdateDataDocsRun(obj, [present |-> TRUE, success |-> "True"],
                      RunIdentifier(runs[i]), RunSuiteIdentifier(runs[i], cloud), cloud, sites,
                      IF i = fail_at THEN "DataContextError" ELSE "none")]
        eff == [i \in 1..n |-> out[i].effects]
    IN IF fail_at \in 1..n THEN Raise(out[fail_at].val, Concat(eff, fail_at))
       ELSE ReturnData("", "dict",
                [i \in 1..n |-> [result_identifier |-> RunIdentifier(runs[i]),
                                 action_result |-> out[i].data]],
                Concat(eff, n))

\* ------------------------------------------------------------- sorters
\* Typed Python values: the type's name, the value written as a string,
\* and the items of a list.
PyNone == [t |-> "NoneType", v |-> None, items |-> <<>>]

PyStr(x) == [t |-> "str", v |-> x, items |-> <<>>]

PyInt(x) == [t |-> "int", v |-> x, items |-> <<>>]

PyList(l) == [t |-> "list", v |-> "[]", items |-> l]

PyBool(x) == [t |-> "bool", v |-> x, items |-> <<>>]

PyTruthy(x) ==
    CASE x.t = "NoneType" -> FALSE
      [] x.t = "str" -> x.v # ""
      [] x.t = "int" -> x.v # "0"
      [] x.t = "list" -> Len(x.items) > 0
      [] x.t = "bool" -> x.v = "True"

IsStr(x) == x.t = "str"

SorterNames == {"date", "region"}

OrderBys == {"asc", "desc"}

\* Sorter.__init__: reverse is derived from orderby.
SorterReverse(orderby) == orderby = "desc"

DateTimeFormats ==
    { PyStr("%Y%m%d"), PyStr("%Y-%m-%d"), PyStr(""), PyNone, PyInt("0"), PyInt("20240115"),
      PyList(<<>>), PyList(<<PyStr("%Y%m%d")>>), PyBool("False"), PyBool("True") }

\* DateTimeSorter.__init__: TRUE when it raises the sorter error.
DateTimeFormatRejected(datetime_format) ==
    PyTruthy(datetime_format) /\ ~IsStr(datetime_format)

ListItems == { PyStr("a"), PyStr("b"), PyInt("1") }

RECURSIVE SeqsUpTo(_, _)
SeqsUpTo(S, n) ==
    IF n = 0 THEN { <<>> }
    ELSE LET shorter == SeqsUpTo(S, n - 1)
         IN shorter \cup { Append(q, x) : q \in shorter, x \in S }

ReferenceLists ==
    { PyNone, PyStr("ab") } \cup { PyList(l) : l \in SeqsUpTo(ListItems, MaxListLen) }

\* CustomListSorter._validate_reference_list: TRUE when it raises.
ReferenceListRejected(reference_list) ==
    \/ ~(PyTruthy(reference_list) /\ reference_list.t = "list")
    \/ \E i \in 1..Len(reference_list.items) : ~IsStr(reference_list.items[i])

ListIndexOfLast(l, x) == (CHOOSE i \in 1..Len(l) : l[i] = x /\ \A j \in (i + 1)..Len(l) : l[j] # x) - 1

\* list.index: the zero-based position of the first occurrence.
ListIndex(l, x) == (CHOOSE i \in 1..Len(l) : l[i] = x /\ \A j \in 1..(i - 1) : l[j] # x) - 1

\* batch_identifiers[name]: a string, or the key is missing.
BatchValues == { PyStr("a"), PyStr("b"), PyStr("z") }

CustomListGetBatchKey(obj, has_key, batch_value) ==
    IF ~has_key THEN Raise("KeyError", <<>>)
    ELSE IF \E i \in 1..Len(obj.reference_list) : obj.reference_list[i] = batch_value
    THEN ReturnData("", "int", <<ListIndex(obj.reference_list, batch_value)>>, <<>>)
    ELSE Raise("SorterError", <<>>)

\* ------------------------------------------ ColumnValuesDateutilParseable
\* A column value: its type, and for a string what dateutil's parse does
\* with it (accepts it, or raises ValueError or OverflowError).
ColumnValues ==
    { [repr |-> "2020-01-01", t |-> "str", parse |-> "ok"],
      [repr |-> "not-a-date", t |-> "str", parse |-> "ValueError"],
      [repr |-> "13/45/2020", t |-> "str", parse |-> "ValueError"],
      [repr |-> "99999999999999999999", t |-> "str", parse |-> "OverflowError"],
      [repr |-> "42", t |-> "int", parse |-> "TypeError"] }

Columns == SeqsUpTo(ColumnValues, MaxColumnLen)

IsParseableCatchesTypeError(val) ==
    IF val.t # "str" THEN [kind |-> "return", exc |-> "", val |-> FALSE]
    ELSE [kind |-> "return", exc |-> "", val |-> val.parse = "ok"]

\* is_parseable: TRUE or FALSE, or the TypeError it raises and does not catch.
IsParseable(val) ==
    IF val.t # "str" THEN [kind |-> "raise", exc |-> "TypeError", val |-> FALSE]
    ELSE IF val.parse \in {"ValueError", "OverflowError"}
    THEN [kind |-> "return", exc |-> "", val |-> FALSE]
    ELSE [kind |-> "return", exc |-> "", val |-> TRUE]

\* column.map(is_parseable): a Series of the values in order; the first
\* exception ends the map.
RECURSIVE ColumnMap(_)
ColumnMap(column) ==
    IF column = <<>> THEN ReturnData("", "Series", <<>>, <<>>)
    ELSE LET first == IsParseable(Head(column))
         IN IF first.kind = "raise" THEN Raise(first.exc, <<>>)
            ELSE LET rest == ColumnMap(Tail(column))
                 IN IF rest.kind = "raise" THEN rest
                    ELSE ReturnData("", "Series", <<first.val>> \o rest.data, <<>>)

\* ---------------------------------------------------------------- actions
\* The result identifier a call was handed, as the call left it.
NoIdentifier == [kind |-> "none", id |-> None]

IdentifierOf(c) == IF "ident" \in DOMAIN c THEN c.ident ELSE NoIdentifier

Init ==
    /\ pc = "start"
    /\ self = NoObject
    /\ call = NoCall
    /\ ret = Pending
    /\ effects = <<>>
    /\ identifier = NoIdentifier
    /\ logs = <<>>
    /\ unclosed = <<>>

Constructed(obj, c) ==
    /\ pc' = "constructed"
    /\ self' = obj
    /\ call' = c
    /\ ret' = Pending
    /\ effects' = <<>>
    /\ identifier' = NoIdentifier
    /\ logs' = <<>>
    /\ unclosed' = <<>>

ConstructFailed(exc, c) ==
    /\ pc' = "done"
    /\ self' = NoObject
    /\ call' = c
    /\ ret' = [kind |-> "raise", key |-> "", val |-> exc, data |-> <<>>]
    /\ effects' = <<>>
    /\ identifier' = NoIdentifier
    /\ logs' = <<>>
    /\ unclosed' = <<>>

\* The connections and sessions a call opened and did not close before it
\* ended.  Slack, Teams and Opsgenie create a requests.Session before each
\* post and have no statement that closes it; _send_email opens one SMTP
\* connection and closes it with quit, the last statement of its try block.
Unclosed(obj, eff) ==
    IF obj.type \in {"slack", "microsoft", "opsgenie"}
    THEN [i \in 1..Len(eff) |-> "requests.Session"]
    ELSE IF obj.type = "email"
    THEN IF /\ \E i \in 1..Len(eff) :
                  eff[i].op \in {"SMTP", "SMTP_SSL"} /\ eff[i].transport.raises = "none"
            /\ \A i \in 1..Len(eff) : eff[i].op # "quit"
         THEN << "smtplib.SMTP" >>
         ELSE <<>>
    ELSE <<>>

\* A method call ends with outcome out and leaves the identifier it was
\* handed as ident.
CalledWith(c, out, ident) ==
    /\ pc' = "done"
    /\ call' = c
    /\ ret' = [kind |-> out.kind, key |-> out.key, val |-> out.val, data |-> out.data]
    /\ effects' = out.effects
    /\ identifier' = ident
    /\ logs' = out.logs
    /\ unclosed' = Unclosed(self, out.effects)
    /\ UNCHANGED self

\* A method call that does not touch the identifier.
Called(c, out) == CalledWith(c, out, IdentifierOf(c))

SlackConstruct ==
    /\ pc = "start"
    /\ \E w \in SlackWebhooks, t \in SlackTokens, ch \in SlackChannels, n \in NotifyOn :
         LET c == [op |-> "SlackNotificationAction", slack_webhook |-> w,
                   slack_token |-> t, slack_channel |-> ch, notify_on |-> n]
         IN IF SlackParamsValid(w, t, ch)
            THEN Constructed([type |-> "slack", notify_on |-> n, slack_webhook |-> w,
                              slack_token |-> t, slack_channel |-> ch], c)
            ELSE ConstructFailed("ValueError", c)

SlackRunCall ==
    /\ pc = "constructed"
    /\ self.type = "slack"
    /\ \E result \in Results, ident \in Identifiers, payload \in Payloads,
          docs_urls \in DocsSiteUrls, rendered \in Rendered :
         \E tr \in TransportSeqs(PostsNeeded(rendered)) :
            Called([op |-> "_run", result |-> result, ident |-> ident,
                    payload |-> payload, docs_urls |-> docs_urls,
                    rendered |-> rendered, transports |-> tr],
                   SlackRun(self, result, ident, payload, docs_urls, rendered, tr))

SlackSendCall ==
    /\ pc = "constructed"
    /\ self.type = "slack"
    /\ \E transport \in Transports :
         Called([op |-> "_send_slack_notification", transport |-> transport],
                Return("", SendSlackNotification(transport),
                       << SlackPost(<<>>, self.slack_webhook, self.slack_channel,
                                    self.slack_token, transport) >>))

IsEnabledCall ==
    /\ pc = "constructed"
    /\ \E success \in CheckpointSuccessVals :
         Called([op |-> "_is_enabled", success |-> success],
                Return("", BoolStr(IsEnabled(self.notify_on, success)), <<>>))

\* --- PagerdutyAlertAction
PagerdutyConstruct ==
    /\ pc = "start"
    /\ \E n \in NotifyOn :
         Constructed([type |-> "pagerduty", notify_on |-> n, api_key |-> "pd-key-1",
                      routing_key |-> "routing-1", severity |-> "critical"],
                     [op |-> "PagerdutyAlertAction", notify_on |-> n])

PagerdutyRunCall ==
    /\ pc = "constructed"
    /\ self.type = "pagerduty"
    /\ \E result \in Results, ident \in Identifiers, meta_suite \in MetaSuiteNames,
          transport \in PdTransports :
         Called([op |-> "_run", result |-> result, ident |-> ident,
                 meta_suite |-> meta_suite, transport |-> transport],
                PagerdutyRun(self, result, ident, meta_suite, transport))

PagerdutyV1RunCall ==
    /\ pc = "constructed"
    /\ self.type = "pagerduty"
    /\ \E cr \in CheckpointResults, transport \in PdTransports :
         Called([op |-> "v1_run", checkpoint_result |-> cr, transport |-> transport],
                PagerdutyV1Run(self, cr, transport))

\* --- MicrosoftTeamsNotificationAction
TeamsConstruct ==
    /\ pc = "start"
    /\ \E n \in NotifyOn :
         Constructed([type |-> "microsoft", notify_on |-> n,
                      teams_webhook |-> "https://outlook.office.com/webhook/1"],
                     [op |-> "MicrosoftTeamsNotificationAction", notify_on |-> n])

TeamsRunCall ==
    /\ pc = "constructed"
    /\ self.type = "microsoft"
    /\ \E result \in Results, ident \in Identifiers, transport \in Transports :
         Called([op |-> "_run", result |-> result, ident |-> ident, transport |-> transport],
                TeamsRun(self, result, ident, transport))

TeamsSendCall ==
    /\ pc = "constructed"
    /\ self.type = "microsoft"
    /\ \E transport \in Transports :
         Called([op |-> "_send_microsoft_teams_notifications", transport |-> transport],
                Return("", SendMicrosoftTeamsNotifications(transport),
                       << TeamsPost(self.teams_webhook, transport) >>))

\* --- OpsgenieAlertAction
OpsgenieConstruct ==
    /\ pc = "start"
    /\ \E n \in NotifyOn, region \in OpsgenieRegions :
         Constructed([type |-> "opsgenie", notify_on |-> n, api_key |-> "og-key-1",
                      region |-> region],
                     [op |-> "OpsgenieAlertAction", notify_on |-> n, region |-> region])

OpsgenieRunCall ==
    /\ pc = "constructed"
    /\ self.type = "opsgenie"
    /\ \E result \in Results, ident \in Identifiers, meta_suite \in MetaSuiteNames,
          transport \in Transports :
         Called([op |-> "_run", result |-> result, ident |-> ident,
                 meta_suite |-> meta_suite, transport |-> transport],
                OpsgenieRun(self, result, ident, meta_suite, transport))

OpsgenieV1RunCall ==
    /\ pc = "constructed"
    /\ self.type = "opsgenie"
    /\ \E cr \in CheckpointResults, transport \in Transports :
         Called([op |-> "v1_run", checkpoint_result |-> cr, transport |-> transport],
                OpsgenieV1Run(self, cr, transport))

\* --- EmailAction
EmailConstruct ==
    /\ pc = "start"
    /\ \E n \in NotifyOn, login \in Credentials, password \in Credentials,
          tls \in Flags, ssl \in Flags :
         Constructed([type |-> "email", notify_on |-> n, sender_login |-> login,
                      sender_password |-> password, use_tls |-> tls, use_ssl |-> ssl],
                     [op |-> "EmailAction", notify_on |-> n])

EmailRunCall ==
    /\ pc = "constructed"
    /\ self.type = "email"
    /\ \E result \in Results, ident \in Identifiers, fail \in SmtpFailures :
         Called([op |-> "_run", result |-> result, ident |-> ident, fail |-> fail],
                EmailRun(self, result, ident, fail))

EmailSendCall ==
    /\ pc = "constructed"
    /\ self.type = "email"
    /\ \E fail \in SmtpFailures :
         Called([op |-> "_send_email", fail |-> fail],
                Logged(Return("", SendEmail(EmailSteps(self), fail),
                              SmtpEffects(EmailSteps(self), fail)),
                       EmailLogs(self, fail)))

\* --- SNSNotificationAction
SnsConstruct ==
    /\ pc = "start"
    /\ \E n \in NotifyOn, subject \in SnsSubjects :
         Constructed([type |-> "sns", notify_on |-> n, sns_topic_arn |-> "arn:aws:sns:1",
                      sns_message_subject |-> subject],
                     [op |-> "SNSNotificationAction", notify_on |-> n])

SnsRunCall ==
    /\ pc = "constructed"
    /\ self.type = "sns"
    /\ \E result \in Results, ident \in Identifiers, suite_ident \in SuiteIdentifiers,
          boto3 \in BOOLEAN, transport \in SnsTransports :
         Called([op |-> "_run", result |-> result, ident |-> ident,
                 suite_ident |-> suite_ident, boto3 |-> boto3, transport |-> transport],
                SnsRun(self, result, ident, suite_ident, boto3, transport))

SnsV1RunCall ==
    /\ pc = "constructed"
    /\ self.type = "sns"
    /\ \E cr \in CheckpointResults, boto3 \in BOOLEAN, transport \in SnsTransports :
         Called([op |-> "v1_run", checkpoint_result |-> cr, boto3 |-> boto3,
                 transport |-> transport],
                SnsV1Run(self, cr, boto3, transport))

\* --- APINotificationAction
ApiConstruct ==
    /\ pc = "start"
    /\ \E n \in NotifyOn :
         Constructed([type |-> "api", notify_on |-> n, url |-> ApiUrl],
                     [op |-> "APINotificationAction", notify_on |-> n])

ApiRunCall ==
    /\ pc = "constructed"
    /\ self.type = "api"
    /\ \E result \in Results, ident \in Identifiers, transport \in Transports :
         Called([op |-> "_run", result |-> result, ident |-> ident, transport |-> transport],
                ApiRun(self, result, ident, transport))

ApiV1RunCall ==
    /\ pc = "constructed"
    /\ self.type = "api"
    /\ \E cr \in CheckpointResults, transport \in Transports :
         Called([op |-> "v1_run", checkpoint_result |-> cr, transport |-> transport],
                ApiV1Run(self, cr, transport))

\* --- StoreValidationResultAction
StoreConstruct ==
    /\ pc = "start"
    /\ \E target_store_name \in TargetStoreNames :
         LET c == [op |-> "StoreValidationResultAction", target_store_name |-> target_store_name]
         IN IF StoreInitRaises(target_store_name) # "none"
            THEN ConstructFailed(StoreInitRaises(target_store_name), c)
            ELSE Constructed([type |-> "store_validation_result", notify_on |-> "all"], c)

StoreRunCall ==
    /\ pc = "constructed"
    /\ self.type = "store_validation_result"
    /\ \E result \in Results, ident \in Identifiers, cloud \in CloudContexts,
          output \in StoreOutputs :
         CalledWith([op |-> "_run", result |-> result, ident |-> ident, cloud |-> cloud,
                     output |-> output],
                    StoreRun(self, result, ident, cloud, output),
                    StoreIdentifierAfter(ident, output))

\* --- UpdateDataDocsAction
UpdateDataDocsConstruct ==
    /\ pc = "start"
    /\ \E site_names \in SiteNames :
         Constructed([type |-> "update_data_docs", notify_on |-> "all", site_names |-> site_names],
                     [op |-> "UpdateDataDocsAction", site_names |-> site_names])

UpdateDataDocsRunCall ==
    /\ pc = "constructed"
    /\ self.type = "update_data_docs"
    /\ \E result \in Results, ident \in Identifiers, suite_ident \in DocsSuiteIdentifiers,
          cloud \in CloudContexts, sites \in DocsSites, build \in BuildOutcomes :
         Called([op |-> "_run", result |-> result, ident |-> ident,
                 suite_ident |-> suite_ident, cloud |-> cloud, sites |-> sites,
                 build |-> build],
                UpdateDataDocsRun(self, result, ident, suite_ident, cloud, sites, build))

UpdateDataDocsV1RunCall ==
    /\ pc = "constructed"
    /\ self.type = "update_data_docs"
    /\ \E cr \in CheckpointResults, cloud \in CloudContexts, sites \in DocsSites,
          fail_at \in 0..MaxRuns :
         Called([op |-> "v1_run", checkpoint_result |-> cr, cloud |-> cloud, sites |-> sites,
                 fail_at |-> fail_at],
                UpdateDataDocsV1Run(self, cr, cloud, sites, fail_at))

\* --- ValidationAction.v1_run, which Slack, Teams, Email and the store
\* action do not override
BaseV1RunCall ==
    /\ pc = "constructed"
    /\ self.type \in {"slack", "microsoft", "email", "store_validation_result"}
    /\ \E cr \in CheckpointResults :
         Called([op |-> "v1_run", checkpoint_result |-> cr],
                Raise("NotImplementedError", <<>>))

Next ==
    \/ SlackConstruct
    \/ SlackRunCall
    \/ SlackSendCall
    \/ IsEnabledCall
    \/ PagerdutyConstruct
    \/ PagerdutyRunCall
    \/ PagerdutyV1RunCall
    \/ TeamsConstruct
    \/ TeamsRunCall
    \/ TeamsSendCall
    \/ OpsgenieConstruct
    \/ OpsgenieRunCall
    \/ OpsgenieV1RunCall
    \/ EmailConstruct
    \/ EmailRunCall
    \/ EmailSendCall
    \/ SnsConstruct
    \/ SnsRunCall
    \/ SnsV1RunCall
    \/ ApiConstruct
    \/ ApiRunCall
    \/ ApiV1RunCall
    \/ StoreConstruct
    \/ StoreRunCall
    \/ UpdateDataDocsConstruct
    \/ UpdateDataDocsRunCall
    \/ UpdateDataDocsV1RunCall
    \/ BaseV1RunCall

Spec == Init /\ [][Next]_vars

\* --- DateTimeSorter
DateTimeSorterConstruct ==
    /\ pc = "start"
    /\ \E name \in SorterNames, orderby \in OrderBys, datetime_format \in DateTimeFormats :
         LET c == [op |-> "DateTimeSorter", name |-> name, orderby |-> orderby,
                   datetime_format |-> datetime_format]
         IN IF DateTimeFormatRejected(datetime_format)
            THEN ConstructFailed("SorterError", c)
            ELSE Constructed([type |-> "DateTimeSorter", name |-> name,
                              reverse |-> SorterReverse(orderby),
                              datetime_format |-> datetime_format], c)

\* --- CustomListSorter
CustomListSorterConstruct ==
    /\ pc = "start"
    /\ \E name \in SorterNames, orderby \in OrderBys, reference_list \in ReferenceLists :
         LET c == [op |-> "CustomListSorter", name |-> name, orderby |-> orderby,
                   reference_list |-> reference_list]
         IN IF ReferenceListRejected(reference_list)
            THEN ConstructFailed("SorterError", c)
            ELSE Constructed([type |-> "CustomListSorter", name |-> name,
                              reverse |-> SorterReverse(orderby),
                              reference_list |-> reference_list.items], c)

CustomListGetBatchKeyCall ==
    /\ pc = "constructed"
    /\ self.type = "CustomListSorter"
    /\ \E has_key \in BOOLEAN, batch_value \in BatchValues :
         Called([op |-> "get_batch_key", has_key |-> has_key, batch_value |-> batch_value],
                CustomListGetBatchKey(self, has_key, batch_value))

NextSorter ==
    \/ DateTimeSorterConstruct
    \/ CustomListSorterConstruct
    \/ CustomListGetBatchKeyCall

SpecSorter == Init /\ [][NextSorter]_vars

\* --- ColumnValuesDateutilParseable._pandas
DateutilParseableCall ==
    /\ pc = "start"
    /\ \E column \in Columns :
         /\ Called([op |-> "_pandas", column |-> column], ColumnMap(column))

NextMetric == DateutilParseableCall

SpecMetric == Init /\ [][NextMetric]_vars

\* ======================================================= analytics events
\* The ten concrete event classes: the tag __init__ hands to Event.__init__,
\* the class's _allowed_actions, and the base class that gives it its fields.
\* A tag is written as the name of its constant in analytics.actions.
EventClassesSuiteDeletedAsCreated ==
    { [cls |-> "DataContextInitializedEvent", base |-> "Event",
       action |-> "DATA_CONTEXT_INITIALIZED",
       allowed |-> {"DATA_CONTEXT_INITIALIZED"}],
      [cls |-> "ExpectationSuiteExpectationCreatedEvent",
       base |-> "_ExpectationSuiteExpectationEvent",
       action |-> "EXPECTATION_SUITE_EXPECTATION_CREATED",
       allowed |-> {"EXPECTATION_SUITE_EXPECTATION_CREATED"}],
      [cls |-> "ExpectationSuiteExpectationUpdatedEvent",
       base |-> "_ExpectationSuiteExpectationEvent",
       action |-> "EXPECTATION_SUITE_EXPECTATION_UPDATED",
       allowed |-> {"EXPECTATION_SUITE_EXPECTATION_UPDATED"}],
      [cls |-> "ExpectationSuiteExpectationDeletedEvent",
       base |-> "_ExpectationSuiteExpectationEvent",
       action |-> "EXPECTATION_SUITE_EXPECTATION_DELETED",
       allowed |-> {"EXPECTATION_SUITE_EXPECTATION_DELETED"}],
      [cls |-> "ExpectationSuiteCreatedEvent", base |-> "_ExpectationSuiteEvent",
       action |-> "EXPECTATION_SUITE_CREATED",
       allowed |-> {"EXPECTATION_SUITE_CREATED"}],
      [cls |-> "ExpectationSuiteDeletedEvent", base |-> "_ExpectationSuiteEvent",
       action |-> "EXPECTATION_SUITE_CREATED",
       allowed |-> {"EXPECTATION_SUITE_DELETED"}],
      [cls |-> "CheckpointCreatedEvent", base |-> "_CheckpointEvent",
       action |-> "CHECKPOINT_CREATED",
       allowed |-> {"CHECKPOINT_CREATED"}],
      [cls |-> "CheckpointDeletedEvent", base |-> "_CheckpointEvent",
       action |-> "CHECKPOINT_DELETED",
       allowed |-> {"CHECKPOINT_DELETED"}],
      [cls |-> "ValidationDefinitionCreatedEvent", base |-> "_ValidationDefinitionEvent",
       action |-> "VALIDATION_DEFINITION_CREATED",
       allowed |-> {"VALIDATION_DEFINITION_CREATED"}],
      [cls |-> "ValidationDefinitionDeletedEvent", base |-> "_ValidationDefinitionEvent",
       action |-> "VALIDATION_DEFINITION_DELETED",
       allowed |-> {"VALIDATION_DEFINITION_DELETED"}] }

EventClasses ==
    { [cls |-> "DataContextInitializedEvent", base |-> "Event",
       action |-> "DATA_CONTEXT_INITIALIZED",
       allowed |-> {"DATA_CONTEXT_INITIALIZED"}],
      [cls |-> "ExpectationSuiteExpectationCreatedEvent",
       base |-> "_ExpectationSuiteExpectationEvent",
       action |-> "EXPECTATION_SUITE_EXPECTATION_CREATED",
       allowed |-> {"EXPECTATION_SUITE_EXPECTATION_CREATED"}],
      [cls |-> "ExpectationSuiteExpectationUpdatedEvent",
       base |-> "_ExpectationSuiteExpectationEvent",
       action |-> "EXPECTATION_SUITE_EXPECTATION_UPDATED",
       allowed |-> {"EXPECTATION_SUITE_EXPECTATION_UPDATED"}],
      [cls |-> "ExpectationSuiteExpectationDeletedEvent",
       base |-> "_ExpectationSuiteExpectationEvent",
       action |-> "EXPECTATION_SUITE_EXPECTATION_DELETED",
       allowed |-> {"EXPECTATION_SUITE_EXPECTATION_DELETED"}],
      [cls |-> "ExpectationSuiteCreatedEvent", base |-> "_ExpectationSuiteEvent",
       action |-> "EXPECTATION_SUITE_CREATED",
       allowed |-> {"EXPECTATION_SUITE_CREATED"}],
      [cls |-> "ExpectationSuiteDeletedEvent", base |-> "_ExpectationSuiteEvent",
       action |-> "EXPECTATION_SUITE_DELETED",
       allowed |-> {"EXPECTATION_SUITE_DELETED"}],
      [cls |-> "CheckpointCreatedEvent", base |-> "_CheckpointEvent",
       action |-> "CHECKPOINT_CREATED",
       allowed |-> {"CHECKPOINT_CREATED"}],
      [cls |-> "CheckpointDeletedEvent", base |-> "_CheckpointEvent",
       action |-> "CHECKPOINT_DELETED",
       allowed |-> {"CHECKPOINT_DELETED"}],
      [cls |-> "ValidationDefinitionCreatedEvent", base |-> "_ValidationDefinitionEvent",
       action |-> "VALIDATION_DEFINITION_CREATED",
       allowed |-> {"VALIDATION_DEFINITION_CREATED"}],
      [cls |-> "ValidationDefinitionDeletedEvent", base |-> "_ValidationDefinitionEvent",
       action |-> "VALIDATION_DEFINITION_DELETED",
       allowed |-> {"VALIDATION_DEFINITION_DELETED"}] }

\* The ids a constructor is given: its default None, or an id.
EventIds == {None, "id-1", "id-2"}

\* The keyword arguments each constructor accepts, with the values tried.
\* No constructor has an action parameter.
EventArguments(c) ==
    IF c.base = "Event" THEN { [op |-> c.cls] }
    ELSE IF c.cls = "ExpectationSuiteExpectationCreatedEvent"
    THEN { [op |-> c.cls, expectation_id |-> e, expectation_suite_id |-> s,
            expectation_type |-> t, custom_exp_type |-> b] :
           e \in EventIds, s \in EventIds,
           t \in {"UNKNOWN", "expect_column_values_to_not_be_null"},
           b \in {"True", "False"} }
    ELSE IF c.base = "_ExpectationSuiteExpectationEvent"
    THEN { [op |-> c.cls, expectation_id |-> e, expectation_suite_id |-> s] :
           e \in EventIds, s \in EventIds }
    ELSE IF c.base = "_ExpectationSuiteEvent"
    THEN { [op |-> c.cls, expectation_suite_id |-> s] : s \in EventIds }
    ELSE IF c.base = "_CheckpointEvent"
    THEN { [op |-> c.cls, checkpoint_id |-> s] : s \in EventIds }
    ELSE { [op |-> c.cls, validation_definition_id |-> s] : s \in EventIds }

\* The event __init__ builds: the class's tag and the arguments as fields.
EventInit(c, args) ==
    [type |-> "event", cls |-> c.cls, base |-> c.base, action |-> c.action,
     fields |-> [k \in DOMAIN args \ {"op"} |-> args[k]]]

\* _properties: the property mapping of the event, as (key, value) items in
\* the order the dict literal lists them.
EventProperties(ev) ==
    LET item(k) == [key |-> k, value |-> ev.fields[k]]
    IN IF ev.base = "Event" THEN <<>>
       ELSE IF ev.cls = "ExpectationSuiteExpectationCreatedEvent"
       THEN << item("expectation_id"), item("expectation_suite_id"),
               item("expectation_type"), item("custom_exp_type") >>
       ELSE IF ev.base = "_ExpectationSuiteExpectationEvent"
       THEN << item("expectation_id"), item("expectation_suite_id") >>
       ELSE IF ev.base = "_ExpectationSuiteEvent" THEN << item("expectation_suite_id") >>
       ELSE IF ev.base = "_CheckpointEvent" THEN << item("checkpoint_id") >>
       ELSE << item("validation_definition_id") >>

EventConstruct ==
    /\ pc = "start"
    /\ \E c \in EventClasses : \E args \in EventArguments(c) :
         Constructed(EventInit(c, args), args)

EventPropertiesCall ==
    /\ pc = "constructed"
    /\ self.type = "event"
    /\ Called([op |-> "_properties"], ReturnData("", "dict", EventProperties(self), <<>>))

NextEvents ==
    \/ EventConstruct
    \/ EventPropertiesCall

SpecEvents == Init /\ [][NextEvents]_vars

\* =========================================== SnowflakeMPBatchDefinition
\* str() of a non-negative integer, as an f-string formats it.
RECURSIVE Str(_)
Str(n) ==
    LET digit(d) == CASE d = 0 -> "0" [] d = 1 -> "1" [] d = 2 -> "2" [] d = 3 -> "3"
                      [] d = 4 -> "4" [] d = 5 -> "5" [] d = 6 -> "6" [] d = 7 -> "7"
                      [] d = 8 -> "8" [] d = 9 -> "9"
    IN IF n < 10 THEN digit(n) ELSE Str(n \div 10) \o digit(n % 10)

\* Batch parameters: a mapping with any of the keys year, month and day.
BatchParameterSets ==
    UNION { [keys -> {2024, 3, 31}] : keys \in SUBSET {"year", "month", "day"} }

\* The value of a key in an f-string: missing keys raise KeyError, in the
\* order the template reads them.
MissingKey(batch_parameters, keys) ==
    IF keys = <<>> THEN None
    ELSE LET missing == SelectSeq(keys, LAMBDA k : k \notin DOMAIN batch_parameters)
         IN IF missing = <<>> THEN None ELSE Head(missing)

GetWhereClauseStrYearOnly(partitioner, batch_parameters) ==
    LET raised == MissingKey(batch_parameters, <<"year">>)
    IN IF raised # None THEN ReturnData("", "KeyError", <<raised>>, <<>>)
       ELSE Return("", "YEAR(" \o partitioner.column \o ") = "
                        \o Str(batch_parameters["year"]), <<>>)

\* get_where_clause_str of the yearly and of the daily partitioner; val is
\* the clause, or "KeyError" with the missing key in data.
GetWhereClauseStr(partitioner, batch_parameters) ==
    IF partitioner.cls = "SnowflakeTableAssetColumnYearlyPartitioner"
    THEN LET raised == MissingKey(batch_parameters, <<"year">>)
         IN IF raised # None THEN ReturnData("", "KeyError", <<raised>>, <<>>)
            ELSE Return("", "YEAR(" \o partitioner.column \o ") = "
                             \o Str(batch_parameters["year"]), <<>>)
    ELSE LET raised == MissingKey(batch_parameters, <<"year", "month", "day">>)
         IN IF raised # None THEN ReturnData("", "KeyError", <<raised>>, <<>>)
            ELSE Return("", "YEAR(" \o partitioner.column \o ") = "
                             \o Str(batch_parameters["year"])
                             \o " AND MONTH(" \o partitioner.column \o ") = "
                             \o Str(batch_parameters["month"])
                             \o " AND DAY(" \o partitioner.column \o ") = "
                             \o Str(batch_parameters["day"]), <<>>)

\* get_selectable_str
GetSelectableStr(obj, batch_parameters) ==
    LET clause == GetWhereClauseStr(obj.partitioner, batch_parameters)
    IN IF clause.val = "KeyError" THEN [Raise("KeyError", <<>>) EXCEPT !.data = clause.data]
       ELSE Return("", obj.data_asset.table_name \o " WHERE " \o clause.val, <<>>)

SnowflakeConstruct ==
    /\ pc = "start"
    /\ \E table_name \in {"orders", "events"}, column \in {"created_at", "day"},
          cls \in {"SnowflakeTableAssetColumnYearlyPartitioner",
                   "SnowflakeTableAssetColumnDailyPartitioner"} :
         Constructed([type |-> "SnowflakeMPBatchDefinition",
                      data_asset |-> [table_name |-> table_name],
                      partitioner |-> [cls |-> cls, column |-> column]],
                     [op |-> "SnowflakeMPBatchDefinition", table_name |-> table_name,
                      column |-> column, partitioner |-> cls])

GetSelectableStrCall ==
    /\ pc = "constructed"
    /\ self.type = "SnowflakeMPBatchDefinition"
    /\ \E batch_parameters \in BatchParameterSets :
         Called([op |-> "get_selectable_str", batch_parameters |-> batch_parameters],
                GetSelectableStr(self, batch_parameters))

NextSnowflake ==
    \/ SnowflakeConstruct
    \/ GetSelectableStrCall

SpecSnowflake == Init /\ [][NextSnowflake]_vars

\* ================================= PagerdutyAlertAction, several instances
\* Most runs in one sequence of runs.
MaxPdRuns == 3

PypdApiKeyAfterFirstWriteKept(key, obj, success) ==
    IF IsEnabled(obj.notify_on, success) /\ key = None THEN obj.api_key ELSE key

\* pypd.api_key after _run_pypd_alert: an enabled run writes the action's
\* key before it creates the event.
PypdApiKeyAfter(key, obj, success) ==
    IF IsEnabled(obj.notify_on, success) THEN obj.api_key ELSE key

\* Here self is the process: the module attribute pypd.api_key and the
\* PagerdutyAlertAction instances that live in it, each with its own key.
PdProcessStart ==
    /\ pc = "start"
    /\ \E n1 \in NotifyOn, n2 \in NotifyOn :
         Constructed([type |-> "process", pypd_api_key |-> None,
                      actions |-> << [type |-> "pagerduty", notify_on |-> n1,
                                      api_key |-> "pd-key-1", routing_key |-> "routing-1",
                                      severity |-> "critical"],
                                     [type |-> "pagerduty", notify_on |-> n2,
                                      api_key |-> "pd-key-2", routing_key |-> "routing-2",
                                      severity |-> "critical"] >>],
                     [op |-> "PagerdutyAlertAction", runs |-> 0])

\* One v1_run of one of the instances, after the runs before it.  The
\* event is created under the pypd.api_key in force at that moment.
PdProcessRun ==
    /\ pc = "constructed"
    /\ self.type = "process"
    /\ call.runs < MaxPdRuns
    /\ \E i \in 1..Len(self.actions), success \in CheckpointSuccessVals,
          transport \in PdTransports :
         LET obj == self.actions[i]
             cr == [success |-> success, name |-> CheckpointName, run_results |-> <<>>]
             out == PagerdutyV1Run(obj, cr, transport)
             key == PypdApiKeyAfter(self.pypd_api_key, obj, OrFalse(success))
         IN /\ pc' = "constructed"
            /\ self' = [self EXCEPT !.pypd_api_key = key]
            /\ call' = [op |-> "v1_run", runs |-> call.runs + 1, action |-> i,
                        success |-> success, key_before |-> self.pypd_api_key]
            /\ ret' = [kind |-> out.kind, key |-> out.key, val |-> out.val, data |-> out.data]
            /\ effects' = effects \o
                 [k \in 1..Len(out.effects) |->
                    [kind |-> "pd_event", action |-> i, pypd_api_key |-> key,
                     dedup_key |-> out.effects[k].dedup_key,
                     transport |-> out.effects[k].transport]]
            /\ UNCHANGED <<identifier, logs, unclosed>>

NextPagerduty ==
    \/ PdProcessStart
    \/ PdProcessRun

SpecPagerduty == Init /\ [][NextPagerduty]_vars

\* ================================================================ claims
NotifyingTypes == {"slack", "pagerduty", "microsoft", "opsgenie", "email", "sns", "api"}

\* A notifying action's _run or v1_run has ended.
NotifierRan ==
    /\ pc = "done"
    /\ self.type \in NotifyingTypes
    /\ call.op \in {"_run", "v1_run"}

LegacyRan == NotifierRan /\ call.op = "_run"

\* The success flag the run was handed.
RunSuccess ==
    IF call.op = "_run" THEN call.result.success ELSE call.checkpoint_result.success

\* C1: for notify_on in {all, failure, success} and success in {true, false},
\* _is_enabled(success) is true exactly when notify_on = all, or notify_on =
\* success and success is true, or notify_on = failure and success is false.
C1_IsEnabledTruthTable ==
    (pc = "done" /\ call.op = "_is_enabled" /\ call.success \in {"True", "False"})
        => ((ret.kind = "return" /\ ret.val = "True")
              <=> \/ self.notify_on = "all"
                  \/ (self.notify_on = "success" /\ call.success = "True")
                  \/ (self.notify_on = "failure" /\ call.success = "False"))

C1_Witness ==
    /\ pc = "done" /\ call.op = "_is_enabled"
    /\ self.notify_on = "failure" /\ call.success = "False" /\ ret.val = "True"

\* C2: in every notifying action, on _run and on v1_run, a run for which
\* _is_enabled(success) is false for the action's notify_on makes no outbound
\* call (HTTP post, SMTP send, SNS publish, PagerDuty event).
C2_DisabledRunSendsNothing ==
    (/\ NotifierRan
     /\ (call.op = "v1_run" \/ call.result.present)
     /\ ~IsEnabled(self.notify_on, RunSuccess))
        => effects = <<>>

\* C3: in every notifying action, _run with an absent validation result is a
\* no-op: it returns no explicit result, raises nothing and makes no outbound
\* call.
C3_AbsentResultIsNoOp ==
    (LegacyRan /\ ~call.result.present)
        => (ret.kind = "return" /\ ret.key = "" /\ ret.val = None /\ effects = <<>>)

\* C4: in every notifying action, _run with a present result and an identifier
\* that is neither a ValidationResultIdentifier nor a GXCloudIdentifier raises
\* a type-mismatch error before any outbound call is made.
C4_UnrecognizedIdentifierRaises ==
    (LegacyRan /\ call.result.present /\ ~Recognized(call.ident))
        => (ret.kind = "raise" /\ ret.val = "TypeError" /\ effects = <<>>)

\* A credential is set when it is given and not empty.
Provided(v) == v # None /\ v # ""

\* C5: constructing a SlackNotificationAction succeeds iff exactly one of the
\* two credential sets is provided (the webhook alone, or the token and the
\* channel without the webhook); every other combination fails with a
\* configuration error.
C5_SlackExactlyOneCredentialSet ==
    (pc # "start" /\ call.op = "SlackNotificationAction")
        => LET w == Provided(call.slack_webhook)
               t == Provided(call.slack_token)
               c == Provided(call.slack_channel)
               exactlyOne == (w /\ ~t /\ ~c) \/ (~w /\ t /\ c)
           IN /\ exactlyOne => (pc = "constructed" /\ self.type = "slack")
              /\ ~exactlyOne => (pc = "done" /\ ret.kind = "raise" /\ ret.val = "ValueError")

C5_Witness ==
    /\ pc = "done" /\ call.op = "SlackNotificationAction"
    /\ Provided(call.slack_webhook) /\ Provided(call.slack_token)
    /\ ~Provided(call.slack_channel)
    /\ ret.kind = "raise"

\* An enabled Slack run got as far as rendering a message whose first block
\* carries text.
SlackSentText ==
    /\ LegacyRan /\ self.type = "slack"
    /\ call.result.present /\ Recognized(call.ident)
    /\ ~(call.ident.kind = "GXCloudIdentifier" /\ call.ident.id # None /\ call.payload.isNone)
    /\ IsEnabled(self.notify_on, call.result.success)
    /\ call.rendered.blocks = "list" /\ call.rendered.has_text

\* C6: when an enabled Slack run renders a message whose first block carries
\* text, then for every text length the text is split into exactly 4 chunks,
\* each of length floor(len(text)/4), and exactly 4 messages are posted one
\* after another, each with that chunk as its text.
C6_ExactlyFourEqualChunks ==
    SlackSentText
        => /\ ret.kind = "return"
           /\ Len(effects) = 4
           /\ \A i \in 1..Len(effects) :
                Len(effects[i].text) = Len(call.rendered.text) \div 4

\* Whether the delivery a helper attempted succeeded, read off the calls it made
\* and how the transport answered them.
Delivered ==
    CASE call.op = "_send_slack_notification" ->
            /\ effects[1].transport.raises = "none"
            /\ effects[1].transport.status = 200
            /\ effects[1].transport.ok
      [] call.op = "_send_microsoft_teams_notifications" ->
            /\ effects[1].transport.raises = "none"
            /\ effects[1].transport.status = 200
      [] call.op = "_send_email" ->
            /\ \A i \in 1..Len(effects) : effects[i].transport.raises = "none"
            /\ effects[Len(effects)].op = "quit"

Confirmation ==
    CASE call.op = "_send_slack_notification" -> "Slack notification succeeded."
      [] call.op = "_send_microsoft_teams_notifications" -> "Microsoft Teams notification succeeded."
      [] call.op = "_send_email" -> "success"

HelperRan ==
    /\ pc = "done"
    /\ call.op \in {"_send_slack_notification", "_send_microsoft_teams_notifications",
                    "_send_email"}

\* C7: in the Slack, Teams and Email delivery helpers no failure of the
\* delivery (a connection error, a non-200 response, for Slack a non-ok body,
\* any other exception) propagates; the helper returns its fixed confirmation
\* value exactly when delivery succeeded and None in every failure case.
C7_HelpersSwallowFailures ==
    HelperRan
        => /\ ret.kind = "return"
           /\ Len(effects) >= 1
           /\ Delivered => ret.val = Confirmation
           /\ ~Delivered => ret.val = None

C7_Witness ==
    /\ HelperRan /\ call.op = "_send_slack_notification"
    /\ effects[1].transport.raises = "none"
    /\ effects[1].transport.status = 200
    /\ ~effects[1].transport.ok
    /\ ret.val = None

\* The transport raised during a run's delivery: the exception it raised.
TransportRaised == \E i \in 1..Len(effects) : effects[i].transport.raises # "none"

RaisedException == effects[Len(effects)].transport.raises

C9_BooleanColumnForEveryInput ==
    (pc = "done" /\ call.op = "_pandas")
        => /\ ret.kind = "return"
           /\ Len(ret.data) = Len(call.column)
           /\ \A i \in 1..Len(call.column) :
                ret.data[i] = (call.column[i].t = "str" /\ call.column[i].parse = "ok")

\* C9 as amended: for a column of strings the metric returns a boolean column
\* of the same length whose entry is true iff the date parser accepts the
\* value (a ValueError or OverflowError of the parser yields false); a
\* non-string value makes the call fail with a TypeError.
C9_StringsMappedNonStringsRaise ==
    (pc = "done" /\ call.op = "_pandas")
        => IF \A i \in 1..Len(call.column) : call.column[i].t = "str"
           THEN /\ ret.kind = "return"
                /\ Len(ret.data) = Len(call.column)
                /\ \A i \in 1..Len(call.column) :
                     ret.data[i] = (call.column[i].parse = "ok")
           ELSE ret.kind = "raise" /\ ret.val = "TypeError"

C9_Witness ==
    /\ pc = "done" /\ call.op = "_pandas"
    /\ Len(call.column) = 3
    /\ call.column[1].repr = "2020-01-01"
    /\ call.column[2].repr = "42"
    /\ call.column[3].repr = "13/45/2020"
    /\ ret.kind = "raise"

DateTimeSorterBuilt == pc # "start" /\ call.op = "DateTimeSorter"

\* C10: constructing a DateTimeSorter fails with a configuration
\* error for every datetime_format that is not a string (None, 0 and an empty
\* list included) and succeeds for every string.
C10_EveryNonStringRejected ==
    DateTimeSorterBuilt
        => ((pc = "done" /\ ret.kind = "raise") <=> (call.datetime_format.t # "str"))

\* The reference list handed to the constructor is one the claim calls valid:
\* a list, not empty, of strings only.
ValidReferenceList(r) ==
    /\ r.t = "list"
    /\ r.items # <<>>
    /\ \A i \in 1..Len(r.items) : r.items[i].t = "str"

\* C11: constructing a CustomListSorter fails with a sorter error when the
\* reference list is missing, empty, not a list or holds a non-string entry,
\* and succeeds otherwise; get_batch_key of a built sorter returns the
\* zero-based position of the batch value's first occurrence in the reference
\* list (a key in 0..len-1) and fails with a sorter error when the value is
\* not in the list.
C11_CustomListSorterKey ==
    /\ (pc # "start" /\ call.op = "CustomListSorter")
          => IF ValidReferenceList(call.reference_list)
             THEN pc = "constructed" /\ self.reference_list = call.reference_list.items
             ELSE pc = "done" /\ ret.kind = "raise" /\ ret.val = "SorterError"
    /\ (pc = "done" /\ call.op = "get_batch_key" /\ call.has_key)
          => LET l == self.reference_list
                 x == call.batch_value
             IN IF \E i \in 1..Len(l) : l[i] = x
                THEN /\ ret.kind = "return"
                     /\ Len(ret.data) = 1
                     /\ ret.data[1] \in 0..(Len(l) - 1)
                     /\ l[ret.data[1] + 1] = x
                     /\ \A j \in 1..ret.data[1] : l[j] # x
                ELSE ret.kind = "raise" /\ ret.val = "SorterError"

C11_Witness ==
    /\ pc = "done" /\ call.op = "get_batch_key" /\ call.has_key
    /\ call.batch_value = PyStr("a")
    /\ self.reference_list = <<PyStr("b"), PyStr("a"), PyStr("a")>>
    /\ ret.kind = "return" /\ ret.data = <<1>>

StoreRan == pc = "done" /\ self.type = "store_validation_result" /\ call.op = "_run"

BuildCalls == SelectSeq(effects, LAMBDA e : e.kind = "build_data_docs")

DocsV1Ran == pc = "done" /\ self.type = "update_data_docs" /\ call.op = "v1_run"

\* C13: for a checkpoint result with N run results, UpdateDataDocsAction.v1_run
\* invokes _run exactly N times, once per run in the run-results order, and
\* returns a mapping with exactly N entries, keyed by the run identifiers, the
\* value of each key being that run's _run result.
C13_DocsV1RunOncePerRun ==
    (DocsV1Ran /\ call.fail_at \notin 1..Len(call.checkpoint_result.run_results))
        => LET runs == call.checkpoint_result.run_results
               n == Len(runs)
           IN /\ Len(BuildCalls) = n
              /\ \A i \in 1..n :
                    BuildCalls[i].resource_identifiers[1] = RunIdentifier(runs[i])
              /\ ret.kind = "return" /\ ret.val = "dict"
              /\ Len(ret.data) = n
              /\ \A i \in 1..n :
                    /\ ret.data[i].result_identifier = RunIdentifier(runs[i])
                    /\ ret.data[i].action_result =
                         IF call.cloud THEN <<>> ELSE SiteUrlDict(call.sites, Len(call.sites))

C13_Witness ==
    /\ DocsV1Ran /\ call.fail_at = 0 /\ ~call.cloud
    /\ Len(call.checkpoint_result.run_results) = 2
    /\ Len(call.sites) = 2
    /\ Len(effects) = 4
    /\ Len(ret.data) = 2
    /\ ret.data[2].result_identifier.run_id = 2

DocsRan ==
    /\ pc = "done" /\ self.type = "update_data_docs" /\ call.op = "_run"
    /\ call.result.present /\ Recognized(call.ident)

\* C14: UpdateDataDocsAction._run with a present result and a recognized
\* identifier triggers the docs rebuild exactly once, before anything else; in
\* a cloud-backed context it then returns an empty map without resolving the
\* site URLs, and otherwise it resolves the site URLs once and returns a map
\* from each returned site name to its site URL.
C14_DocsRebuildThenUrls ==
    DocsRan
        => /\ Len(effects) >= 1 /\ effects[1].kind = "build_data_docs"
           /\ Len(BuildCalls) = 1
           /\ effects[1].resource_identifiers = <<call.ident, call.suite_ident>>
           /\ call.build = "none"
                => /\ ret.kind = "return" /\ ret.val = "dict"
                   /\ IF call.cloud
                      THEN Len(effects) = 1 /\ ret.data = <<>>
                      ELSE /\ Len(effects) = 2 /\ effects[2].kind = "get_docs_sites_urls"
                           /\ { ret.data[i].key : i \in 1..Len(ret.data) }
                                = { call.sites[j].site_name : j \in 1..Len(call.sites) }
                           /\ \A i, k \in 1..Len(ret.data) :
                                ret.data[i].key = ret.data[k].key => i = k
                           /\ \A i \in 1..Len(ret.data) :
                                \E j \in 1..Len(call.sites) :
                                    /\ call.sites[j].site_name = ret.data[i].key
                                    /\ call.sites[j].site_url = ret.data[i].value
                                    /\ \A m \in (j + 1)..Len(call.sites) :
                                         call.sites[m].site_name # ret.data[i].key

C14_Witness ==
    /\ DocsRan /\ ~call.cloud /\ call.build = "none"
    /\ Len(call.sites) = 2 /\ call.sites[2].site_name = "s3_site"
    /\ Len(effects) = 2
    /\ Len(ret.data) = 2 /\ ret.data[2].value = None

\* ------------------------------------------------------------------- C15
EmailSent == pc = "done" /\ self.type = "email" /\ call.op = "_send_email"

SmtpCalls(ops) == { i \in 1..Len(effects) : effects[i].op \in ops }

HasLog(level, about) ==
    \E i \in 1..Len(logs) : logs[i].level = level /\ logs[i].about = about

\* C15: _send_email picks the transport from use_ssl and use_tls alone.  With
\* use_ssl set it opens SMTP_SSL, never calls starttls, and warns "choose
\* between SSL or TLS" exactly when use_tls is set too; with only use_tls set
\* it opens plain SMTP and calls starttls next, without a warning; with neither
\* it opens plain SMTP, never calls starttls and warns "not secure".  Every
\* call opens exactly one connection, as its first SMTP step.
C15_TransportFromFlags ==
    EmailSent =>
        /\ Cardinality(SmtpCalls({"SMTP", "SMTP_SSL"})) = 1
        /\ effects[1].op = (IF Truthy(self.use_ssl) THEN "SMTP_SSL" ELSE "SMTP")
        /\ HasLog("warning", "choose between SSL or TLS")
              <=> (Truthy(self.use_ssl) /\ Truthy(self.use_tls))
        /\ HasLog("warning", "not secure")
              <=> (~Truthy(self.use_ssl) /\ ~Truthy(self.use_tls))
        /\ IF ~Truthy(self.use_ssl) /\ Truthy(self.use_tls)
           THEN effects[1].transport.raises = "none"
                    => Len(effects) >= 2 /\ effects[2].op = "starttls"
           ELSE SmtpCalls({"starttls"}) = {}

C15_Witness ==
    /\ EmailSent
    /\ Truthy(self.use_ssl) /\ Truthy(self.use_tls)
    /\ effects[1].op = "SMTP_SSL"
    /\ HasLog("warning", "choose between SSL or TLS")
    /\ ret.val = "success"

\* ------------------------------------------------------------------- C16
\* The connection stands: neither opening it nor starttls raised.
ConnectionStands ==
    \A i \in SmtpCalls({"SMTP", "SMTP_SSL", "starttls"}) : effects[i].transport.raises = "none"

BothCredentials == self.sender_login # None /\ self.sender_password # None

NoCredentials == self.sender_login = None /\ self.sender_password = None

\* C16: once the connection stands, _send_email calls login exactly when
\* sender_login and sender_password are both present.  With exactly one of
\* them it logs the "specify both credentials" error, calls no login and goes
\* on to sendmail; with neither it logs no such error, calls no login and
\* goes on to sendmail.
C16_LoginOnlyWithBothCredentials ==
    (EmailSent /\ ConnectionStands) =>
        /\ (SmtpCalls({"login"}) # {}) <=> BothCredentials
        /\ HasLog("error", "specify both credentials")
              <=> (~BothCredentials /\ ~NoCredentials)
        /\ ~BothCredentials => SmtpCalls({"sendmail"}) # {}

C16_Witness ==
    /\ EmailSent /\ ConnectionStands
    /\ self.sender_login # None /\ self.sender_password = None
    /\ HasLog("error", "specify both credentials")
    /\ SmtpCalls({"login"}) = {}
    /\ SmtpCalls({"sendmail"}) # {}
    /\ ret.val = "success"

\* ------------------------------------------------------------------- C17
SnsRan(op) == pc = "done" /\ self.type = "sns" /\ call.op = op

SnsPublishes == { i \in 1..Len(effects) : effects[i].kind = "sns_publish" }

\* The subject of the one publish of the call.
SnsPublishedSubject == effects[CHOOSE i \in SnsPublishes : TRUE].subject

\* The subject lookup of _run fails: nothing is configured, no suite
\* identifier is passed and the result identifier has no run_id.
SnsNoSubjectFound ==
    self.sns_message_subject = None /\ call.suite_ident = None /\ ~HasRunId(call.ident)

C18_NoBoto3NoPublish ==
    ((SnsRan("_run") \/ SnsRan("v1_run")) /\ ~call.boto3) =>
        /\ effects = <<>>
        /\ IF call.op = "_run" /\ SnsNoSubjectFound
           THEN ret.kind = "raise"
           ELSE ret.kind = "return" /\ ret.val = "boto3 is not installed"

C18_Witness ==
    /\ SnsRan("_run") /\ ~call.boto3
    /\ call.transport.raises = "Exception"
    /\ effects = <<>>
    /\ ret.kind = "return" /\ ret.val = "boto3 is not installed"

\* ------------------------------------------------------------------- C19
ApiV1Ran == pc = "done" /\ self.type = "api" /\ call.op = "v1_run"

HttpPosts == { i \in 1..Len(effects) : effects[i].kind = "http_post" }

\* C19: for a checkpoint result with N runs, v1_run makes exactly one HTTP
\* post, to the action's url, whose body is N payloads in run order, the i-th
\* carrying the i-th run's batch identifier as data_asset_name, its suite
\* name and its serialized results; when the post answers, v1_run returns the
\* "Posted results to API, status code - " confirmation with the response's
\* status code, and when the post raises, that exception.
C19_ApiV1OnePostOfAllRuns ==
    ApiV1Ran =>
        LET runs == call.checkpoint_result.run_results IN
        /\ Len(effects) = 1 /\ HttpPosts = {1}
        /\ effects[1].url = self.url
        /\ Len(effects[1].data) = Len(runs)
        /\ \A i \in 1..Len(runs) :
              /\ effects[1].data[i].data_asset_name = runs[i].batch_identifier
              /\ effects[1].data[i].test_suite_name = runs[i].suite_name
              /\ effects[1].data[i].validation_results
                    = ConvertToJsonSerializable(runs[i].results)
        /\ IF call.transport.raises = "none"
           THEN /\ ret.kind = "return"
                /\ ret.val = "Posted results to API, status code - "
                /\ ret.data = <<call.transport.status>>
           ELSE ret.kind = "raise" /\ ret.val = call.transport.raises

C19_Witness ==
    /\ ApiV1Ran
    /\ Len(call.checkpoint_result.run_results) = MaxRuns
    /\ Len(effects) = 1 /\ Len(effects[1].data) = MaxRuns
    /\ effects[1].data[MaxRuns].data_asset_name = <<"batch", MaxRuns>>
    /\ ret.kind = "return" /\ ret.data = <<call.transport.status>>

\* ------------------------------------------------------------------- C20
PagerdutyV1Ran == pc = "done" /\ self.type = "pagerduty" /\ call.op = "v1_run"

PdEvents == { i \in 1..Len(effects) : effects[i].kind = "pd_event" }

\* The action is enabled for the checkpoint's success (an absent success
\* counts as a failure).
PdEnabled ==
    \/ self.notify_on = "all"
    \/ self.notify_on = "success" /\ call.checkpoint_result.success = "True"
    \/ self.notify_on = "failure" /\ call.checkpoint_result.success # "True"

\* C20: when the action is enabled for the checkpoint's success, v1_run
\* creates exactly one PagerDuty event, whose dedup_key is the checkpoint name
\* and whose summary ends in "succeeded" for a successful checkpoint and in
\* "failed" otherwise, and returns pagerduty_alert_result = "success" unless
\* the event creation raised; when it is not enabled it creates no event and
\* returns pagerduty_alert_result = "none sent".
C20_PagerdutyV1OneEventWhenEnabled ==
    PagerdutyV1Ran =>
        IF PdEnabled
        THEN /\ Len(effects) = 1 /\ PdEvents = {1}
             /\ effects[1].dedup_key = call.checkpoint_result.name
             /\ effects[1].summary[Len(effects[1].summary)]
                   = (IF call.checkpoint_result.success = "True"
                      THEN "succeeded" ELSE "failed")
             /\ IF call.transport.raises = "none"
                THEN /\ ret.kind = "return"
                     /\ ret.key = "pagerduty_alert_result" /\ ret.val = "success"
                ELSE ret.kind = "raise"
        ELSE /\ effects = <<>>
             /\ ret.kind = "return"
             /\ ret.key = "pagerduty_alert_result" /\ ret.val = "none sent"

C20_Witness ==
    /\ PagerdutyV1Ran
    /\ self.notify_on = "failure" /\ call.checkpoint_result.success = None
    /\ Len(effects) = 1
    /\ effects[1].dedup_key = CheckpointName
    /\ effects[1].summary[Len(effects[1].summary)] = "failed"
    /\ ret.key = "pagerduty_alert_result" /\ ret.val = "success"

\* ------------------------------------------------------------------- C21
\* _send_opsgenie_alert ran: an enabled Opsgenie run made its post.
OpsgenieSent == pc = "done" /\ self.type = "opsgenie" /\ Len(effects) = 1

OpsgeniePostFailed ==
    \/ call.transport.raises = "ConnectionError"
    \/ call.transport.raises = "none" /\ call.transport.status # 200

SlackPosted == pc = "done" /\ self.type = "slack" /\ Len(effects) >= 1

\* Every post goes to the bot API with the token as bearer authorization
\* when no webhook is set, and to the webhook without authorization
\* otherwise.
SlackEndpointByWebhook ==
    \A i \in 1..Len(effects) :
        IF Truthy(self.slack_webhook)
        THEN effects[i].url = self.slack_webhook /\ effects[i].auth = None
        ELSE /\ effects[i].url = "https://slack.com/api/chat.postMessage"
             /\ effects[i].auth = self.slack_token /\ Truthy(effects[i].auth)

EventBuilt == pc \in {"constructed", "done"} /\ self.type = "event"

\* The class of the event in hand.
EventClassOf(name) == CHOOSE c \in EventClasses : c.cls = name

\* C23: there are ten concrete event classes; an event built by any of them,
\* whatever the constructor arguments, carries the one tag of its class's
\* _allowed_actions; the allow-lists of two different classes share no tag;
\* no constructor takes an action argument.
C23_EventActionFixedAndAllowed ==
    /\ Cardinality({ c.cls : c \in EventClasses }) = 10
    /\ Cardinality(EventClasses) = 10
    /\ \A c1, c2 \in EventClasses : c1.cls # c2.cls => c1.allowed \cap c2.allowed = {}
    /\ \A c \in EventClasses : \A args \in EventArguments(c) : "action" \notin DOMAIN args
    /\ EventBuilt =>
          /\ EventClassOf(self.cls).allowed = {self.action}
          /\ "action" \notin DOMAIN self.fields

C23_Witness ==
    /\ EventBuilt /\ pc = "constructed"
    /\ self.cls = "ExpectationSuiteExpectationCreatedEvent"
    /\ call.expectation_id = "id-1" /\ call.custom_exp_type = "True"
    /\ self.action = "EXPECTATION_SUITE_EXPECTATION_CREATED"
    /\ self.fields.expectation_id = "id-1"

\* ------------------------------------------------------------------- C24
SelectableAsked ==
    pc = "done" /\ self.type = "SnowflakeMPBatchDefinition" /\ call.op = "get_selectable_str"

YearlyPartitioner == self.partitioner.cls = "SnowflakeTableAssetColumnYearlyPartitioner"

RequiredKeys == IF YearlyPartitioner THEN {"year"} ELSE {"year", "month", "day"}

\* C24: get_selectable_str returns "<table_name> WHERE <clause>", the clause
\* being "YEAR(<column>) = <year>" for the yearly partitioner, whatever month
\* and day are or whether they are there, and "YEAR(<column>) = <year> AND
\* MONTH(<column>) = <month> AND DAY(<column>) = <day>" for the daily one,
\* with the batch parameters of those keys; when a required key is missing
\* it raises KeyError for a missing required key.
C24_SelectableStrRendersClause ==
    SelectableAsked =>
        LET bp == call.batch_parameters
            col == self.partitioner.column
        IN IF RequiredKeys \subseteq DOMAIN bp
           THEN /\ ret.kind = "return"
                /\ ret.val = self.data_asset.table_name \o " WHERE "
                     \o (IF YearlyPartitioner
                         THEN "YEAR(" \o col \o ") = " \o Str(bp["year"])
                         ELSE "YEAR(" \o col \o ") = " \o Str(bp["year"])
                              \o " AND MONTH(" \o col \o ") = " \o Str(bp["month"])
                              \o " AND DAY(" \o col \o ") = " \o Str(bp["day"]))
           ELSE /\ ret.kind = "raise" /\ ret.val = "KeyError"
                /\ Len(ret.data) = 1
                /\ ret.data[1] \in RequiredKeys \ DOMAIN bp

C24_Witness ==
    /\ SelectableAsked /\ ~YearlyPartitioner
    /\ self.data_asset.table_name = "orders" /\ self.partitioner.column = "created_at"
    /\ DOMAIN call.batch_parameters = {"year", "month", "day"}
    /\ call.batch_parameters["year"] = 2024
    /\ call.batch_parameters["month"] = 3
    /\ call.batch_parameters["day"] = 31
    /\ ret.val = "orders WHERE YEAR(created_at) = 2024 AND MONTH(created_at) = 3 AND DAY(created_at) = 31"

\* ------------------------------------------------------------------- C25
\* The call ended on its success path, or on a path that reached the close
\* statement of the connection it opened.
CloseReached ==
    /\ pc = "done"
    /\ self.type \in {"slack", "microsoft", "opsgenie", "email"}
    /\ \/ \A i \in 1..Len(effects) : effects[i].transport.raises = "none"
       \/ self.type = "email" /\ \E i \in 1..Len(effects) : effects[i].op = "quit"

\* C25 as stated: every SMTP connection and HTTP session a call opens is
\* closed before the call returns, on the success path and on every failure
\* path that reaches the close statement.
C25_OpenedResourcesClosed == CloseReached => unclosed = <<>>

\* ------------------------------------------------------------------- C26
\* The texts of the posts made, one after the other.
PostedText == Concat([i \in 1..Len(effects) |-> effects[i].text], Len(effects))

\* C26 as stated: for every text of the first block, the chunks posted,
\* concatenated in posting order, are the text itself, and no chunk is empty.
C26_ChunksConcatenateToText ==
    SlackSentText =>
        /\ PostedText = call.rendered.text
        /\ \A i \in 1..Len(effects) : effects[i].text # <<>>

\* ------------------------------------------------------------------- C27
\* Slack _run was called with a present result, a recognized identifier and
\* no payload.
SlackRanWithoutPayload ==
    /\ LegacyRan /\ self.type = "slack"
    /\ call.result.present /\ Recognized(call.ident)
    /\ call.payload.isNone

\* C27 as stated: such a run never raises, whichever the identifier kind and
\* also for a cloud identifier that already has an id.  (The ValueError of a
\* text too short to be chunked is a matter of the chunking, and is left
\* aside here.)
C27_NoPayloadNeverRaises ==
    SlackRanWithoutPayload => (ret.kind = "return" \/ ret.val = "ValueError")

\* ------------------------------------------------------------------- C28
PdProcessRan == pc = "constructed" /\ self.type = "process" /\ call.op = "v1_run"

\* The run just made was enabled for its checkpoint's success.
PdLastRunEnabled ==
    LET obj == self.actions[call.action]
    IN \/ obj.notify_on = "all"
       \/ obj.notify_on = "success" /\ call.success = "True"
       \/ obj.notify_on = "failure" /\ call.success # "True"

\* C28: in every sequence of runs of PagerdutyAlertAction instances with
\* different api keys, each event was created while pypd.api_key was the
\* api_key of the instance that created it; an enabled run leaves
\* pypd.api_key at its own key and a run that is not enabled leaves it as it
\* was.
C28_EventsUnderOwnKey ==
    PdProcessRan =>
        /\ \A k \in 1..Len(effects) :
              effects[k].pypd_api_key = self.actions[effects[k].action].api_key
        /\ IF PdLastRunEnabled
           THEN self.pypd_api_key = self.actions[call.action].api_key
           ELSE self.pypd_api_key = call.key_before

C28_Witness ==
    /\ PdProcessRan
    /\ Len(effects) = 2
    /\ effects[1].action = 1 /\ effects[1].pypd_api_key = "pd-key-1"
    /\ effects[2].action = 2 /\ effects[2].pypd_api_key = "pd-key-2"
    /\ call.runs = 3 /\ ~PdLastRunEnabled
    /\ self.pypd_api_key = "pd-key-2"

\* ------------------------------------------------------------------- C29
\* v1_run of PagerDuty or Opsgenie ran on a checkpoint result whose success
\* is None.
UndeterminedV1Ran ==
    /\ pc = "done" /\ self.type \in {"pagerduty", "opsgenie"}
    /\ call.op = "v1_run" /\ call.checkpoint_result.success = None

\* The text of the alert: PagerDuty's summary, Opsgenie's message.
AlertText(e) == IF e.kind = "pd_event" THEN e.summary ELSE e.message

\* C29: a checkpoint result with success None counts as a failure in v1_run
\* of PagerDuty and Opsgenie: with notify_on failure or all exactly one alert
\* is sent and its text ends in "failed" (PagerDuty) or "failed!" (Opsgenie);
\* with notify_on success no alert is sent.
C29_UndeterminedCountsAsFailure ==
    UndeterminedV1Ran =>
        IF self.notify_on \in {"failure", "all"}
        THEN /\ Len(effects) = 1
             /\ LET text == AlertText(effects[1])
                IN text[Len(text)] = (IF self.type = "pagerduty" THEN "failed" ELSE "failed!")
        ELSE /\ effects = <<>>
             /\ ret.kind = "return"
             /\ ret.val = (IF self.type = "pagerduty" THEN "none sent" ELSE "No alert sent")

C29_Witness ==
    /\ UndeterminedV1Ran /\ self.type = "opsgenie" /\ self.notify_on = "failure"
    /\ Len(effects) = 1
    /\ effects[1].message = <<"Great Expectations Checkpoint", CheckpointName, "failed!">>
    /\ ret.kind = "return" /\ ret.val = "True"

\* ------------------------------------------------------------------- C30
\* Slack _run got past its argument checks.
SlackRunChecked ==
    /\ LegacyRan /\ self.type = "slack"
    /\ call.result.present /\ Recognized(call.ident)
    /\ ~(call.ident.kind = "GXCloudIdentifier" /\ call.ident.id # None /\ call.payload.isNone)

\* The last post was delivered: answered 200 with an ok body.
LastPostDelivered ==
    LET t == effects[Len(effects)].transport
    IN t.raises = "none" /\ t.status = 200 /\ t.ok

\* C30: in batch sending (a text long enough to be chunked) every chunk is
\* posted whether or not earlier posts were delivered, and _run reports
\* "Slack notification succeeded." exactly when the last post was delivered;
\* an enabled run whose rendered message has no blocks (absent or empty)
\* posts nothing and reports "none required", as a run that is not enabled
\* does.
C30_BatchResultIsLastChunks ==
    /\ (SlackSentText /\ Len(call.rendered.text) >= 4) =>
          /\ Len(effects) = Len(call.transports)
          /\ PostedText = call.rendered.text
          /\ ret.kind = "return" /\ ret.key = "slack_notification_result"
          /\ (ret.val = "Slack notification succeeded.") <=> LastPostDelivered
    /\ (/\ SlackRunChecked
        /\ \/ ~IsEnabled(self.notify_on, call.result.success)
           \/ call.rendered.blocks \in {"absent", "empty"}) =>
          /\ effects = <<>>
          /\ ret.kind = "return" /\ ret.key = "slack_notification_result"
          /\ ret.val = "none required"

C30_Witness ==
    /\ SlackSentText /\ Len(call.rendered.text) >= 4
    /\ Len(effects) >= 4
    /\ effects[1].transport.raises = "ConnectionError"
    /\ LastPostDelivered
    /\ ret.val = "Slack notification succeeded."

====
